---- MODULE Spec2Model ----
(***************************************************************************)
(* Model of the Cassandra MCP tools: the DDL synthesis of                  *)
(* cassandra_show_create_table, the structured description of             *)
(* cassandra_describe_table and its type resolution, the listings of       *)
(* cassandra_list_indexes and cassandra_list_tables, and the connection    *)
(* module the tools take their client from.                                *)
(*                                                                         *)
(* JavaScript values are tagged records, so that null, undefined, strings, *)
(* numbers and objects stay distinct.  Text produced by string             *)
(* concatenation is kept as the sequence of the pieces appended (tokens);  *)
(* Text(tokens) is the string itself.                                      *)
(***************************************************************************)
EXTENDS Integers, Sequences, FiniteSets, TLC

VARIABLES
    tableRows,      \* rows of system_schema.tables for (keyspace, table)
    columnRows,     \* rows of system_schema.columns, in stored order
    keyRows,        \* rows of system_schema.key_columns, in stored order
    keysResult,     \* rows array of the last key_columns ResultSet, as the handler left it
    keysReturned,   \* rows of that ResultSet as the query returned them
    dbFault,        \* which execute calls of a handler run the database rejects
    keyspaceRows,   \* rows of system_schema.keyspaces for the keyspace
    listedRows,     \* rows of system_schema.tables for the keyspace, in stored order
    indexRows,      \* rows of system_schema.indexes for the keyspace, in stored order
    viewRows,       \* rows of system_schema.views for the keyspace, in stored order
    tableName,      \* input.tableName of cassandra_list_indexes
    includeViews,   \* input.includeViews of cassandra_list_tables
    indexesResult,  \* value returned by the last cassandra_list_indexes call
    tablesResult,   \* value returned by the last cassandra_list_tables call
    showResult,     \* value returned by the last cassandra_show_create_table call
    describeResult, \* value returned by the last cassandra_describe_table call
    type,           \* raw type descriptor handed to getColumnTypeString
    stackLimit,     \* call depth at which the engine raises RangeError
    typeResult,     \* value returned by the last getColumnTypeString call
    typeCalls,      \* descriptors getColumnTypeString was entered on during that call
    typeDepth,      \* deepest call depth that call asked for
    client,         \* module variable client: 0 for null, else the place of a Client in clients
    currentConnectionConfig, \* module variable currentConnectionConfig
    connectionTime, \* module variable connectionTime
    clients,        \* the Client objects constructed so far
    calls,          \* the calls of connectToCassandra and disconnectFromCassandra
    lastGet,        \* outcome of the last getCassandraClient call
    lastStatus,     \* value returned by the last getConnectionStatus call
    queryResult     \* outcome of the last cassandra_execute_query call

schemaVars == <<tableRows, columnRows, keyRows, keysResult, keysReturned, dbFault,
                showResult, describeResult>>
typeVars == <<type, stackLimit, typeResult, typeCalls, typeDepth>>

listVars == <<keyspaceRows, listedRows, indexRows, viewRows, tableName, includeViews,
              indexesResult, tablesResult>>

connVars == <<client, currentConnectionConfig, connectionTime, clients, calls, lastGet,
              lastStatus, queryResult>>

vars == <<schemaVars, typeVars, listVars, connVars>>

(***************************************************************************)
(* Bounds of the model.                                                    *)
(***************************************************************************)
MaxKeys == 3
MaxDepth == 2
MaxRows == 2
MaxCalls == 3

(***************************************************************************)
(* JavaScript values.                                                      *)
(***************************************************************************)
JsNull == [t |-> "null"]
JsUndefined == [t |-> "undefined"]
JsStr(s) == [t |-> "string", v |-> s]
JsNum(n) == [t |-> "number", v |-> n]
JsBool(b) == [t |-> "boolean", v |-> b]
\* a plain object: a sequence of <<key, value>> entries in insertion order
JsObj(entries) == [t |-> "object", entries |-> entries]

NotCalled == [not_called |-> TRUE]

\* the message of the Error getCassandraClient throws when client is null
NotInitialized == "Cassandra client is not initialized. Call connect first."

\* the outcome of an execute that throws: its promise rejects with an Error of this message
Thrown(message) == [thrown |-> message]

\* truthiness of a value, as `!x`, `x && ...`, `x || ...` and `x ? :` test it
Truthy(v) ==
    CASE v.t = "null" -> FALSE
      [] v.t = "undefined" -> FALSE
      [] v.t = "string" -> v.v # ""
      [] v.t = "number" -> v.v # 0
      [] v.t = "boolean" -> v.v
      [] OTHER -> TRUE

\* String.prototype.toUpperCase on the strings of the model
ToUpperCase(s) ==
    CASE s = "asc" -> "ASC"
      [] s = "desc" -> "DESC"
      [] s = "none" -> "NONE"
      [] s = "ASC" -> "ASC"
      [] s = "DESC" -> "DESC"
      [] OTHER -> s

RECURSIVE Text(_)
\* the string a sequence of appended pieces makes
Text(tokens) == IF tokens = <<>> THEN "" ELSE Head(tokens) \o Text(Tail(tokens))

RECURSIVE Join(_, _)
\* Array.prototype.join over pieces that are token sequences
Join(parts, sep) ==
    IF parts = <<>> THEN <<>>
    ELSE IF Len(parts) = 1 THEN Head(parts)
    ELSE Head(parts) \o <<sep>> \o Join(Tail(parts), sep)

RECURSIVE InsertByPosition(_, _)
InsertByPosition(sorted, row) ==
    IF sorted = <<>> THEN <<row>>
    ELSE IF Head(sorted).position <= row.position
         THEN <<Head(sorted)>> \o InsertByPosition(Tail(sorted), row)
         ELSE <<row>> \o sorted

RECURSIVE SortTiesReversed(_)
\* a sort that is not stable: rows of equal position come out in reverse order
SortTiesReversed(rows) ==
    IF rows = <<>> THEN <<>>
    ELSE InsertByPosition(SortTiesReversed(Tail(rows)), Head(rows))

RECURSIVE SortByPosition(_)
\* Array.prototype.sort((a, b) => a.position - b.position): a stable sort
SortByPosition(rows) ==
    IF rows = <<>> THEN <<>>
    ELSE InsertByPosition(SortByPosition(SubSeq(rows, 1, Len(rows) - 1)), rows[Len(rows)])

\* the rows a query with ORDER BY position ASC returns for the stored rows: ascending
\* position, rows of equal position in stored order
OrderByPositionAsc(stored) ==
    LET before(j, i) == \/ stored[j].position < stored[i].position
                        \/ stored[j].position = stored[i].position /\ j < i
        place(i) == 1 + Cardinality({j \in DOMAIN stored : before(j, i)})
    IN [r \in DOMAIN stored |-> stored[CHOOSE i \in DOMAIN stored : place(i) = r]]

(***************************************************************************)
(* Names of table row fields are sequences of characters, so that the      *)
(* snake_case to camelCase conversion can be computed as the code does.    *)
(***************************************************************************)
LowerLetters == <<"a","b","c","d","e","f","g","h","i","j","k","l","m",
                  "n","o","p","q","r","s","t","u","v","w","x","y","z">>
UpperLetters == <<"A","B","C","D","E","F","G","H","I","J","K","L","M",
                  "N","O","P","Q","R","S","T","U","V","W","X","Y","Z">>

IsLowerLetter(c) == \E i \in DOMAIN LowerLetters : LowerLetters[i] = c
UpperOfLetter(c) == UpperLetters[CHOOSE i \in DOMAIN LowerLetters : LowerLetters[i] = c]


\* the characters of a field name
Chars(name) ==
    CASE name = "bloom_filter_fp_chance" ->
           <<"b", "l", "o", "o", "m", "_", "f", "i", "l", "t", "e", "r", "_", "f", "p", "_", "c", "h", "a", "n", "c", "e">>
      [] name = "caching" ->
           <<"c", "a", "c", "h", "i", "n", "g">>
      [] name = "comment" ->
           <<"c", "o", "m", "m", "e", "n", "t">>
      [] name = "compaction" ->
           <<"c", "o", "m", "p", "a", "c", "t", "i", "o", "n">>
      [] name = "compression" ->
           <<"c", "o", "m", "p", "r", "e", "s", "s", "i", "o", "n">>
      [] name = "crc_check_chance" ->
           <<"c", "r", "c", "_", "c", "h", "e", "c", "k", "_", "c", "h", "a", "n", "c", "e">>
      [] name = "default_time_to_live" ->
           <<"d", "e", "f", "a", "u", "l", "t", "_", "t", "i", "m", "e", "_", "t", "o", "_", "l", "i", "v", "e">>
      [] name = "gc_grace_seconds" ->
           <<"g", "c", "_", "g", "r", "a", "c", "e", "_", "s", "e", "c", "o", "n", "d", "s">>
      [] name = "read_repair_chance" ->
           <<"r", "e", "a", "d", "_", "r", "e", "p", "a", "i", "r", "_", "c", "h", "a", "n", "c", "e">>
      [] name = "speculative_retry" ->
           <<"s", "p", "e", "c", "u", "l", "a", "t", "i", "v", "e", "_", "r", "e", "t", "r", "y">>
      [] name = "keyspace_name" ->
           <<"k", "e", "y", "s", "p", "a", "c", "e", "_", "n", "a", "m", "e">>
      [] name = "table_name" ->
           <<"t", "a", "b", "l", "e", "_", "n", "a", "m", "e">>
      [] name = "id" ->
           <<"i", "d">>
      [] name = "dclocal_read_repair_chance" ->
           <<"d", "c", "l", "o", "c", "a", "l", "_", "r", "e", "a", "d", "_", "r", "e", "p", "a", "i", "r", "_", "c", "h", "a", "n", "c", "e">>
      [] name = "max_index_interval" ->
           <<"m", "a", "x", "_", "i", "n", "d", "e", "x", "_", "i", "n", "t", "e", "r", "v", "a", "l">>
      [] name = "memtable_flush_period_in_ms" ->
           <<"m", "e", "m", "t", "a", "b", "l", "e", "_", "f", "l", "u", "s", "h", "_", "p", "e", "r", "i", "o", "d", "_", "i", "n", "_", "m", "s">>
      [] name = "min_index_interval" ->
           <<"m", "i", "n", "_", "i", "n", "d", "e", "x", "_", "i", "n", "t", "e", "r", "v", "a", "l">>

\* the allow-list of storage options
optionsToInclude == <<"bloom_filter_fp_chance",
                      "caching",
                      "comment",
                      "compaction",
                      "compression",
                      "crc_check_chance",
                      "default_time_to_live",
                      "gc_grace_seconds",
                      "read_repair_chance",
                      "speculative_retry">>

Includes(list, x) == \E i \in DOMAIN list : list[i] = x

RECURSIVE CamelCaseChars(_)
\* chars.replace(/_([a-z])/g, (_, letter) => letter.toUpperCase())
CamelCaseChars(chars) ==
    IF chars = <<>> THEN <<>>
    ELSE IF Head(chars) = "_" /\ Len(chars) >= 2 /\ IsLowerLetter(chars[2])
         THEN <<UpperOfLetter(chars[2])>> \o CamelCaseChars(Tail(Tail(chars)))
         ELSE <<Head(chars)>> \o CamelCaseChars(Tail(chars))

\* camelCaseKey of ShowTableSchemaTool.execute
CamelCase(key) == Text(CamelCaseChars(Chars(key)))

(***************************************************************************)
(* Conversions of values to text.                                          *)
(***************************************************************************)
\* String(v), which is also how a template literal renders ${v}
JsString(v) ==
    CASE v.t = "null" -> "null"
      [] v.t = "undefined" -> "undefined"
      [] v.t = "string" -> v.v
      [] v.t = "number" -> ToString(v.v)
      [] v.t = "boolean" -> IF v.v THEN "true" ELSE "false"
      [] OTHER -> "[object Object]"

\* typeof v
TypeOf(v) ==
    CASE v.t = "null" -> "object"
      [] v.t = "undefined" -> "undefined"
      [] v.t = "string" -> "string"
      [] v.t = "number" -> "number"
      [] v.t = "boolean" -> "boolean"
      [] OTHER -> "object"

DoubleQuote == "\""

\* JSON.stringify of a scalar member of an object value
JsonScalar(v) ==
    IF v.t = "string" THEN <<DoubleQuote, v.v, DoubleQuote>> ELSE <<JsString(v)>>

\* JSON.stringify of null, or of an object whose keys are strings and whose values are
\* scalars
JsonStringify(obj) ==
    IF obj = JsNull THEN <<"null">>
    ELSE <<"{">>
         \o Join([i \in DOMAIN obj.entries |->
                     <<DoubleQuote, obj.entries[i][1], DoubleQuote, ":">>
                     \o JsonScalar(obj.entries[i][2])], ",")
         \o <<"}">>

\* s.replace(/"/g, "'") over the pieces of s
ReplaceDoubleQuotes(tokens) ==
    [i \in DOMAIN tokens |-> IF tokens[i] = DoubleQuote THEN "'" ELSE tokens[i]]

(***************************************************************************)
(* Type resolution: DescribeTableTool.getColumnTypeString                  *)
(*                                                                         *)
(* A raw type descriptor is a string, another primitive, or an object with *)
(* the optional fields code, name and info; info is an array of            *)
(* sub-descriptors or an object with the optional fields keyType,          *)
(* valueType, elementType and types.  Self is a reference back to the      *)
(* descriptor the resolution started from: a descriptor that holds Self is *)
(* a cyclic object graph.                                                  *)
(***************************************************************************)
JsArray(items) == [t |-> "array", items |-> items]
Self == [t |-> "self"]
TypeObj(code, name, info) == [t |-> "descriptor", code |-> code, name |-> name, info |-> info]
InfoObj(keyType, valueType, elementType, types) ==
    [t |-> "info", keyType |-> keyType, valueType |-> valueType,
     elementType |-> elementType, types |-> types]

\* the object a reference denotes
Deref(v, root) == IF v = Self THEN root ELSE v

\* property reads, undefined where the value has no such property
InfoOf(ty) == IF ty.t = "descriptor" THEN ty.info ELSE JsUndefined
KeyTypeOf(info) == IF info.t = "info" THEN info.keyType ELSE JsUndefined
ValueTypeOf(info) == IF info.t = "info" THEN info.valueType ELSE JsUndefined
ElementTypeOf(info) == IF info.t = "info" THEN info.elementType ELSE JsUndefined
TypesOf(info) == IF info.t = "info" THEN info.types ELSE JsUndefined
IsArray(v) == v.t = "array"
\* a[i] for a zero-based index i
At(a, i) == IF i + 1 \in DOMAIN a.items THEN a.items[i + 1] ELSE JsUndefined

\* Object.entries(types.dataTypes) of the driver, restricted to its numeric members
dataTypes ==
    << <<"custom", 0>>, <<"ascii", 1>>, <<"bigint", 2>>, <<"blob", 3>>, <<"boolean", 4>>,
       <<"counter", 5>>, <<"decimal", 6>>, <<"double", 7>>, <<"float", 8>>, <<"int", 9>>,
       <<"text", 10>>, <<"timestamp", 11>>, <<"uuid", 12>>, <<"varchar", 13>>,
       <<"varint", 14>>, <<"timeuuid", 15>>, <<"inet", 16>>, <<"date", 17>>, <<"time", 18>>,
       <<"smallint", 19>>, <<"tinyint", 20>>, <<"duration", 21>>, <<"list", 32>>,
       <<"map", 33>>, <<"set", 34>>, <<"udt", 48>>, <<"tuple", 49>> >>

\* the result of the branch taken for a descriptor that has a code
TypeCodeName(typeCode) ==
    IF \E i \in DOMAIN dataTypes : JsNum(dataTypes[i][2]) = typeCode
    THEN LET first == CHOOSE i \in DOMAIN dataTypes :
                        /\ JsNum(dataTypes[i][2]) = typeCode
                        /\ \A j \in 1..(i - 1) : JsNum(dataTypes[j][2]) # typeCode
         IN dataTypes[first][1]
    ELSE "type_" \o JsString(typeCode)

\* a resolution that looks at the name field before the code
TypeBranchNameFirst(ty) ==
    IF ~Truthy(ty) THEN "falsy"
    ELSE IF TypeOf(ty) = "string" THEN "string"
    ELSE IF TypeOf(ty) = "object" /\ ty.t = "descriptor"
    THEN IF Truthy(ty.name) THEN "name"
         ELSE IF ty.code # JsUndefined THEN "code"
         ELSE IF Truthy(ty.info) /\ Truthy(KeyTypeOf(ty.info)) /\ Truthy(ValueTypeOf(ty.info))
              THEN "map"
         ELSE IF Truthy(ty.info) /\ Truthy(ElementTypeOf(ty.info)) THEN "list"
         ELSE IF Truthy(ty.info) /\ IsArray(ty.info) THEN "set"
         ELSE IF Truthy(ty.info) /\ IsArray(TypesOf(ty.info)) THEN "tuple"
         ELSE "last_resort"
    ELSE "last_resort"

\* which return statement of getColumnTypeString a descriptor reaches
TypeBranch(ty) ==
    IF ~Truthy(ty) THEN "falsy"
    ELSE IF TypeOf(ty) = "string" THEN "string"
    ELSE IF TypeOf(ty) = "object" /\ ty.t = "descriptor"
    THEN IF ty.code # JsUndefined THEN "code"
         ELSE IF Truthy(ty.name) THEN "name"
         ELSE IF Truthy(ty.info) /\ Truthy(KeyTypeOf(ty.info)) /\ Truthy(ValueTypeOf(ty.info))
              THEN "map"
         ELSE IF Truthy(ty.info) /\ Truthy(ElementTypeOf(ty.info)) THEN "list"
         ELSE IF Truthy(ty.info) /\ IsArray(ty.info) THEN "set"
         ELSE IF Truthy(ty.info) /\ IsArray(TypesOf(ty.info)) THEN "tuple"
         ELSE "last_resort"
    ELSE "last_resort"

\* a resolution whose set branch reads the last entry of the array
TypeSubCallsLastEntry(ty) ==
    LET branch == TypeBranch(ty)
    IN CASE branch = "map" -> <<ty.info.keyType, ty.info.valueType>>
         [] branch = "list" -> <<ty.info.elementType>>
         [] branch = "set" -> <<At(ty.info, Len(ty.info.items) - 1)>>
         [] branch = "tuple" -> ty.info.types.items
         [] OTHER -> <<>>

\* the sub-descriptors getColumnTypeString calls itself on, in call order
TypeSubCalls(ty) ==
    LET branch == TypeBranch(ty)
    IN CASE branch = "map" -> <<ty.info.keyType, ty.info.valueType>>
         [] branch = "list" -> <<ty.info.elementType>>
         [] branch = "set" -> <<At(ty.info, 0)>>
         [] branch = "tuple" -> ty.info.types.items
         [] OTHER -> <<>>

RECURSIVE JoinStrings(_, _)
\* Array.prototype.join over strings
JoinStrings(parts, sep) ==
    IF parts = <<>> THEN ""
    ELSE IF Len(parts) = 1 THEN Head(parts)
    ELSE Head(parts) \o sep \o JoinStrings(Tail(parts), sep)

RECURSIVE getColumnTypeString(_, _, _, _)
\* getColumnTypeString(type) running in the frame at call depth `depth`, for an engine
\* whose call stack holds `limit` such frames: a call made from the frame at depth
\* `limit` raises RangeError inside the try block, and the catch returns 'unknown'
getColumnTypeString(rawType, root, depth, limit) ==
    LET ty == Deref(rawType, root)
        branch == TypeBranch(ty)
        subs == TypeSubCalls(ty)
        sub(i) == getColumnTypeString(subs[i], root, depth + 1, limit)
    IN CASE branch = "falsy" -> "unknown"
         [] branch = "string" -> ty.v
         [] branch = "code" -> TypeCodeName(ty.code)
         [] branch = "name" -> ty.name.v
         [] branch = "last_resort" -> JsString(ty)
         [] OTHER ->
              IF subs # <<>> /\ depth >= limit THEN "unknown"
              ELSE CASE branch = "map" -> "map<" \o sub(1) \o ", " \o sub(2) \o ">"
                     [] branch = "list" -> "list<" \o sub(1) \o ">"
                     [] branch = "set" -> "set<" \o sub(1) \o ">"
                     [] branch = "tuple" ->
                          "tuple<" \o JoinStrings([i \in DOMAIN subs |-> sub(i)], ", ") \o ">"

RECURSIVE TypeCalls(_, _, _, _)
\* the descriptors on which getColumnTypeString is entered during one resolution
TypeCalls(rawType, root, depth, limit) ==
    LET ty == Deref(rawType, root)
        subs == TypeSubCalls(ty)
    IN {ty} \cup (IF depth >= limit THEN {}
                  ELSE UNION {TypeCalls(subs[i], root, depth + 1, limit) : i \in DOMAIN subs})

RECURSIVE TypeCallDepth(_, _, _, _)
\* the deepest call depth one resolution asks for; limit + 1 when it asks for more
\* frames than the call stack holds
TypeCallDepth(rawType, root, depth, limit) ==
    LET ty == Deref(rawType, root)
        subs == TypeSubCalls(ty)
        Max(S) == CHOOSE m \in S : \A n \in S : n <= m
    IN IF subs = <<>> THEN depth
       ELSE IF depth >= limit THEN limit + 1
       ELSE Max({TypeCallDepth(subs[i], root, depth + 1, limit) : i \in DOMAIN subs})

(***************************************************************************)
(* cassandra_show_create_table                                             *)
(***************************************************************************)
KeyspaceName == "ks"
TableName == "t"
QualifiedName == <<KeyspaceName, ".", TableName>>

ColumnNames(rows) == [i \in DOMAIN rows |-> rows[i].column_name]

IsPartitionKey(key) == key.kind = "partition_key"
IsClustering(key) == key.kind = "clustering"

\* key.clustering_order?.toUpperCase() || 'ASC'
ShowOrderOf(key) ==
    LET upper == IF key.clustering_order.t \in {"null", "undefined"}
                 THEN JsUndefined
                 ELSE JsStr(ToUpperCase(key.clustering_order.v))
    IN IF Truthy(upper) THEN upper.v ELSE "ASC"

\* partitionKeys of ShowTableSchemaTool.execute
ShowPartitionKeys(keys) == ColumnNames(SortByPosition(SelectSeq(keys, IsPartitionKey)))

\* clusteringKeys of ShowTableSchemaTool.execute
ShowClusteringKeys(keys) ==
    LET sorted == SortByPosition(SelectSeq(keys, IsClustering))
    IN [i \in DOMAIN sorted |->
            [name |-> sorted[i].column_name, order |-> ShowOrderOf(sorted[i])]]

\* the column lines appended by the forEach over columnsResult.rows
ColumnLines(cols) ==
    Join([i \in DOMAIN cols |->
            <<"  ", cols[i].column_name, " ", JsString(cols[i].type)>>], ",\n")

\* a PRIMARY KEY clause that groups a single partition key like several
PrimaryKeyClauseGrouped(partitionKeys, clusteringKeys) ==
    IF Len(partitionKeys) > 0 \/ Len(clusteringKeys) > 0
    THEN <<",\n  PRIMARY KEY (">>
         \o (IF Len(partitionKeys) >= 1
             THEN <<"(">> \o Join([i \in DOMAIN partitionKeys |-> <<partitionKeys[i]>>], ", ")
                  \o <<")">>
             ELSE <<>>)
         \o (IF Len(clusteringKeys) > 0
             THEN <<", ">> \o Join([i \in DOMAIN clusteringKeys |-> <<clusteringKeys[i].name>>], ", ")
             ELSE <<>>)
         \o <<")">>
    ELSE <<>>

\* a PRIMARY KEY clause that lists several partition keys without grouping them
PrimaryKeyClauseFlat(partitionKeys, clusteringKeys) ==
    IF Len(partitionKeys) > 0 \/ Len(clusteringKeys) > 0
    THEN <<",\n  PRIMARY KEY (">>
         \o Join([i \in DOMAIN partitionKeys |-> <<partitionKeys[i]>>], ", ")
         \o (IF Len(clusteringKeys) > 0
             THEN <<", ">> \o Join([i \in DOMAIN clusteringKeys |-> <<clusteringKeys[i].name>>], ", ")
             ELSE <<>>)
         \o <<")">>
    ELSE <<>>

\* the PRIMARY KEY clause appended to the statement
PrimaryKeyClause(partitionKeys, clusteringKeys) ==
    IF Len(partitionKeys) > 0 \/ Len(clusteringKeys) > 0
    THEN <<",\n  PRIMARY KEY (">>
         \o (IF Len(partitionKeys) = 1 THEN <<partitionKeys[1]>>
             ELSE IF Len(partitionKeys) > 1
                  THEN <<"(">> \o Join([i \in DOMAIN partitionKeys |-> <<partitionKeys[i]>>], ", ")
                       \o <<")">>
                  ELSE <<>>)
         \o (IF Len(clusteringKeys) > 0
             THEN <<", ">> \o Join([i \in DOMAIN clusteringKeys |-> <<clusteringKeys[i].name>>], ", ")
             ELSE <<>>)
         \o <<")">>
    ELSE <<>>

\* the clustering order clause appended to the statement
ClusteringOrderClause(clusteringKeys) ==
    IF Len(clusteringKeys) > 0
    THEN <<" WITH CLUSTERING ORDER BY (">>
         \o Join([i \in DOMAIN clusteringKeys |->
                    <<clusteringKeys[i].name, " ", clusteringKeys[i].order>>], ", ")
         \o <<")">>
    ELSE <<>>

\* the value of one option as it is rendered in the statement
FormatValue(value) ==
    IF TypeOf(value) = "object" THEN ReplaceDoubleQuotes(JsonStringify(value))
    ELSE IF TypeOf(value) = "string" THEN <<"'", value.v, "'">>
    ELSE <<JsString(value)>>

\* a filter that keeps the allow-listed entries whatever their value
OptionIncludedWithNull(entry) == Includes(optionsToInclude, entry[1])

\* whether the filter over Object.entries(tableInfo) keeps an entry
OptionIncluded(entry) == Includes(optionsToInclude, entry[1]) /\ entry[2] # JsNull

\* tableOptions of ShowTableSchemaTool.execute: one piece per option kept
ShowTableOptions(tableInfo) ==
    LET kept == SelectSeq(tableInfo.entries, OptionIncluded)
    IN [i \in DOMAIN kept |->
            <<"  ", CamelCase(kept[i][1]), " = ">> \o FormatValue(kept[i][2])]

\* an options clause introduced by WITH whatever precedes it
OptionsClauseAlwaysWith(tableOptions, clusteringKeys) ==
    IF Len(tableOptions) > 0
    THEN <<" WITH\n">> \o Join(tableOptions, " AND\n")
    ELSE <<>>

\* the options clause appended to the statement
OptionsClause(tableOptions, clusteringKeys) ==
    IF Len(tableOptions) > 0
    THEN (IF Len(clusteringKeys) = 0 THEN <<" WITH\n">> ELSE <<" AND\n">>)
         \o Join(tableOptions, " AND\n")
    ELSE <<>>

\* createStatement of ShowTableSchemaTool.execute
CreateStatement(tableInfo, cols, keys) ==
    LET partitionKeys == ShowPartitionKeys(keys)
        clusteringKeys == ShowClusteringKeys(keys)
    IN <<"CREATE TABLE ">> \o QualifiedName \o <<" (\n">>
       \o ColumnLines(cols)
       \o PrimaryKeyClause(partitionKeys, clusteringKeys)
       \o <<"\n)">>
       \o ClusteringOrderClause(clusteringKeys)
       \o OptionsClause(ShowTableOptions(tableInfo), clusteringKeys)
       \o <<";">>

\* a columns query without its ORDER BY clause
ShowColumnsQueryUnordered(stored) == stored

\* the rows the columns query of cassandra_show_create_table returns
ShowColumnsQuery(stored) == OrderByPositionAsc(stored)

\* the rows the key_columns query of cassandra_show_create_table returns
ShowKeysQuery(stored) == OrderByPositionAsc(stored)

\* an execute that does not test for zero column rows
ShowTableSchemaExecuteUnchecked(tRows, storedCols, storedKeys) ==
    IF Len(tRows) = 0
    THEN [message |-> <<"Table '">> \o QualifiedName \o <<"' not found.">>]
    ELSE [schema |-> CreateStatement(tRows[1], ShowColumnsQuery(storedCols),
                                     ShowKeysQuery(storedKeys))]

\* ShowTableSchemaTool.execute: the value it returns
ShowTableSchemaExecute(tRows, storedCols, storedKeys) ==
    IF Len(tRows) = 0
    THEN [message |-> <<"Table '">> \o QualifiedName \o <<"' not found.">>]
    ELSE IF Len(ShowColumnsQuery(storedCols)) = 0
    THEN [message |-> <<"No columns found for table '">> \o QualifiedName \o <<"'.">>]
    ELSE [schema |-> CreateStatement(tRows[1], ShowColumnsQuery(storedCols),
                                     ShowKeysQuery(storedKeys))]

\* the faults of the database: no execute call of a handler run rejects, the first
\* rejects, the second rejects, every call but the first rejects, every call rejects
DbFaults == {"none", "first", "second", "after_first", "every"}

\* whether the n-th execute call of a handler run rejects
Rejects(fault, n) ==
    CASE fault = "none" -> FALSE
      [] fault = "first" -> n = 1
      [] fault = "second" -> n = 2
      [] fault = "after_first" -> n > 1
      [] fault = "every" -> TRUE

\* error.message of the error the n-th execute call of a run rejects with
QueryError(n) == "execute call " \o ToString(n) \o " rejected"

\* the catch block of ShowTableSchemaTool.execute
ShowFailed(message) ==
    [error |-> <<"Failed to get schema for table '">> \o QualifiedName \o <<"': ", message>>]

\* the execute call of the try block of ShowTableSchemaTool.execute that rejects, 0
\* when none does: the table query is call 1, the columns query, made when the table
\* is found, call 2, the keys query, made when columns are found, call 3
ShowThrowsAt(fault, tRows, storedCols) ==
    IF Rejects(fault, 1) THEN 1
    ELSE IF Len(tRows) = 0 THEN 0
    ELSE IF Rejects(fault, 2) THEN 2
    ELSE IF Len(ShowColumnsQuery(storedCols)) = 0 THEN 0
    ELSE IF Rejects(fault, 3) THEN 3
    ELSE 0

\* one run of ShowTableSchemaTool.execute: the try block, or the catch block when a
\* query rejects
\* getCassandraClient is called before the try block: with client null its Error leaves
\* execute uncaught
ShowCreateTable ==
    IF client = 0
    THEN /\ showResult' = Thrown(NotInitialized)
         /\ UNCHANGED <<tableRows, columnRows, keyRows, keysResult, keysReturned, dbFault,
                        describeResult>>
         /\ UNCHANGED <<typeVars, listVars, connVars>>
    ELSE /\ showResult' = IF ShowThrowsAt(dbFault, tableRows, columnRows) # 0
                          THEN ShowFailed(QueryError(ShowThrowsAt(dbFault, tableRows, columnRows)))
                          ELSE ShowTableSchemaExecute(tableRows, columnRows, keyRows)
         /\ IF \/ ShowThrowsAt(dbFault, tableRows, columnRows) # 0
               \/ Len(tableRows) = 0
               \/ Len(ShowColumnsQuery(columnRows)) = 0
            THEN UNCHANGED <<keysResult, keysReturned>>
            ELSE /\ keysReturned' = ShowKeysQuery(keyRows)
                 /\ keysResult' = ShowKeysQuery(keyRows)
         /\ UNCHANGED <<tableRows, columnRows, keyRows, dbFault, describeResult>>
         /\ UNCHANGED <<typeVars, listVars, connVars>>

(***************************************************************************)
(* cassandra_describe_table                                                *)
(***************************************************************************)

\* the keys of the tableOptions object literal, each with the row field it reads
describeOptionFields ==
    << <<"bloomFilterFpChance", "bloom_filter_fp_chance">>,
       <<"caching", "caching">>,
       <<"comment", "comment">>,
       <<"compaction", "compaction">>,
       <<"compression", "compression">>,
       <<"crcCheckChance", "crc_check_chance">>,
       <<"dcLocalReadRepairChance", "dclocal_read_repair_chance">>,
       <<"defaultTimeToLive", "default_time_to_live">>,
       <<"gcGraceSeconds", "gc_grace_seconds">>,
       <<"maxIndexInterval", "max_index_interval">>,
       <<"memtableFlushPeriodInMs", "memtable_flush_period_in_ms">>,
       <<"minIndexInterval", "min_index_interval">>,
       <<"readRepairChance", "read_repair_chance">>,
       <<"speculative_retry", "speculative_retry">> >>

\* tableInfo[field]: undefined when the row has no such field
RowField(tableInfo, field) ==
    IF \E i \in DOMAIN tableInfo.entries : tableInfo.entries[i][1] = field
    THEN tableInfo.entries[CHOOSE i \in DOMAIN tableInfo.entries :
                               tableInfo.entries[i][1] = field][2]
    ELSE JsUndefined

\* keyColumns of DescribeTableTool.execute: keysResult.rows sorted in place
DescribeKeyColumns(keys) == SortByPosition(keys)

\* partitionKeys of DescribeTableTool.execute
DescribePartitionKeys(keyColumns) == ColumnNames(SelectSeq(keyColumns, IsPartitionKey))

\* clusteringKeys of DescribeTableTool.execute
DescribeClusteringKeys(keyColumns) == ColumnNames(SelectSeq(keyColumns, IsClustering))

\* columns of DescribeTableTool.execute
DescribeColumns(cols, partitionKeys, clusteringKeys, limit) ==
    [i \in DOMAIN cols |->
        [name |-> cols[i].column_name,
         type |-> getColumnTypeString(cols[i].type, cols[i].type, 1, limit),
         position |-> cols[i].position,
         kind |-> IF Includes(partitionKeys, cols[i].column_name) THEN "partition_key"
                  ELSE IF Includes(clusteringKeys, cols[i].column_name) THEN "clustering_key"
                  ELSE "regular"]]

\* keyInfo && keyInfo.clustering_order ? keyInfo.clustering_order.toUpperCase() : 'ASC'
\* for keyInfo = keyColumns.find(k => k.column_name === name)
DescribeOrderOf(keyColumns, name) ==
    IF \E i \in DOMAIN keyColumns : keyColumns[i].column_name = name
    THEN LET first == CHOOSE i \in DOMAIN keyColumns :
                        /\ keyColumns[i].column_name = name
                        /\ \A j \in 1..(i - 1) : keyColumns[j].column_name # name
             keyInfo == keyColumns[first]
         IN IF Truthy(keyInfo.clustering_order)
            THEN ToUpperCase(keyInfo.clustering_order.v)
            ELSE "ASC"
    ELSE "ASC"

IsClusteringColumn(col) == col.kind = "clustering_key"

\* clusteringOrder of DescribeTableTool.execute
DescribeClusteringOrder(columns, keyColumns) ==
    LET clustering == SelectSeq(columns, IsClusteringColumn)
    IN [i \in DOMAIN clustering |->
            [column |-> clustering[i].name,
             order |-> DescribeOrderOf(keyColumns, clustering[i].name)]]

\* the tableOptions object of the description
DescribeTableOptions(tableInfo) ==
    [i \in DOMAIN describeOptionFields |->
        <<describeOptionFields[i][1], RowField(tableInfo, describeOptionFields[i][2])>>]

\* a try block that describes a table without looking for its row
DescribeTableExecuteUnchecked(tRows, cols, keys, limit) ==
    LET keyColumns == DescribeKeyColumns(keys)
        partitionKeys == DescribePartitionKeys(keyColumns)
        clusteringKeys == DescribeClusteringKeys(keyColumns)
        columns == DescribeColumns(cols, partitionKeys, clusteringKeys, limit)
    IN [name |-> TableName,
        keyspace |-> KeyspaceName,
        columns |-> columns,
        partitionKeys |-> partitionKeys,
        clusteringKeys |-> clusteringKeys,
        clusteringOrder |-> DescribeClusteringOrder(columns, keyColumns),
        tableOptions |-> <<>>]

\* the try block of DescribeTableTool.execute: the value it returns
DescribeTableExecute(tRows, cols, keys, limit) ==
    IF Len(tRows) = 0
    THEN [message |-> <<"Table '">> \o QualifiedName \o <<"' not found.">>]
    ELSE LET keyColumns == DescribeKeyColumns(keys)
             partitionKeys == DescribePartitionKeys(keyColumns)
             clusteringKeys == DescribeClusteringKeys(keyColumns)
             columns == DescribeColumns(cols, partitionKeys, clusteringKeys, limit)
         IN [name |-> TableName,
             keyspace |-> KeyspaceName,
             columns |-> columns,
             partitionKeys |-> partitionKeys,
             clusteringKeys |-> clusteringKeys,
             clusteringOrder |-> DescribeClusteringOrder(columns, keyColumns),
             tableOptions |-> DescribeTableOptions(tRows[1])]

\* the call depths at which the engine may run out of stack
StackLimits == {MaxDepth + 2, MaxDepth + 3}

\* the rows the key_columns queries of cassandra_describe_table return
DescribeKeysQuery(stored) == stored

\* key names of one kind taken in stored order, without the sort by position
FallbackKeysOfKindUnsorted(keyColumns, kind) ==
    ColumnNames(SelectSeq(keyColumns, LAMBDA key : key.kind = kind))

\* partitionKeys and clusteringKeys of the fallback of DescribeTableTool.execute
FallbackKeysOfKind(keyColumns, kind) ==
    ColumnNames(SortByPosition(SelectSeq(keyColumns, LAMBDA key : key.kind = kind)))

\* the fallback of DescribeTableTool.execute: the value its try block returns
DescribeFallback(tRows, cols, keys) ==
    IF Len(tRows) = 0
    THEN [message |-> <<"Table '">> \o QualifiedName \o <<"' not found.">>]
    ELSE LET partitionKeys == FallbackKeysOfKind(keys, "partition_key")
             clusteringKeys == FallbackKeysOfKind(keys, "clustering")
         IN [name |-> TableName,
             keyspace |-> KeyspaceName,
             columns |-> [i \in DOMAIN cols |->
                            [name |-> cols[i].column_name,
                             type |-> cols[i].type,
                             kind |-> IF Includes(partitionKeys, cols[i].column_name)
                                      THEN "partition_key"
                                      ELSE IF Includes(clusteringKeys, cols[i].column_name)
                                           THEN "clustering_key"
                                           ELSE "regular"]],
             partitionKeys |-> partitionKeys,
             clusteringKeys |-> clusteringKeys]

\* the catch block of the fallback: message is error.message of the first error
DescribeFailed(message) ==
    [error |-> <<"Failed to describe table '">> \o QualifiedName \o <<"': ", message>>]

\* the execute call that rejects among the three queries of a path of
\* DescribeTableTool.execute whose first query is call first of the run, 0 when none
\* does: the columns query and the keys query are made when the table is found
DescribeThrowsAt(fault, tRows, first) ==
    IF Rejects(fault, first) THEN first
    ELSE IF Len(tRows) = 0 THEN 0
    ELSE IF Rejects(fault, first + 1) THEN first + 1
    ELSE IF Rejects(fault, first + 2) THEN first + 2
    ELSE 0

\* one run of DescribeTableTool.execute: the try block; when one of its queries
\* rejects, the fallback, whose queries are the next execute calls of the run; when
\* one of those rejects, the catch block of the fallback
\* getCassandraClient is called before the try block: with client null its Error leaves
\* execute uncaught
DescribeTable ==
    IF client = 0
    THEN /\ describeResult' = Thrown(NotInitialized)
         /\ UNCHANGED <<tableRows, columnRows, keyRows, keysResult, keysReturned, dbFault,
                        showResult>>
         /\ UNCHANGED <<typeVars, listVars, connVars>>
    ELSE LET thrown == DescribeThrowsAt(dbFault, tableRows, 1)
             rethrown == DescribeThrowsAt(dbFault, tableRows, thrown + 1)
         IN /\ \E limit \in StackLimits :
                  describeResult' =
                      IF thrown = 0
                      THEN DescribeTableExecute(tableRows, columnRows,
                                                DescribeKeysQuery(keyRows), limit)
                      ELSE IF rethrown = 0
                           THEN DescribeFallback(tableRows, columnRows, DescribeKeysQuery(keyRows))
                           ELSE DescribeFailed(QueryError(thrown))
            /\ IF Len(tableRows) = 0 \/ (thrown # 0 /\ rethrown # 0)
               THEN UNCHANGED <<keysResult, keysReturned>>
               ELSE /\ keysReturned' = DescribeKeysQuery(keyRows)
                    /\ keysResult' = IF thrown # 0 THEN DescribeKeysQuery(keyRows)
                                     ELSE DescribeKeyColumns(DescribeKeysQuery(keyRows))
            /\ UNCHANGED <<tableRows, columnRows, keyRows, dbFault, showResult>>
            /\ UNCHANGED <<typeVars, listVars, connVars>>

(***************************************************************************)
(* cassandra_list_indexes                                                  *)
(***************************************************************************)
\* an indexes query that never restricts the rows to a table
IndexesQueryUnfiltered(stored, name) == stored

\* the rows the indexes query returns: those of the table when input.tableName is truthy
IndexesQuery(stored, name) ==
    IF Truthy(name) THEN SelectSeq(stored, LAMBDA row : row.table_name = name.v) ELSE stored

\* the rows the views query returns: those of the base table when input.tableName is truthy
ViewsQuery(stored, name) ==
    IF Truthy(name) THEN SelectSeq(stored, LAMBDA row : row.base_table_name = name.v)
    ELSE stored

\* idx.options?.target and idx.options?.class_name
OptionalField(obj, field) ==
    IF obj \in {JsNull, JsUndefined} THEN JsUndefined ELSE RowField(obj, field)

\* indexes of ListIndexesTool.execute
IndexDescriptors(rows) ==
    [i \in DOMAIN rows |->
        [name |-> rows[i].index_name,
         table |-> rows[i].table_name,
         type |-> "SECONDARY_INDEX",
         options |-> [target |-> OptionalField(rows[i].options, "target"),
                      indexClass |-> OptionalField(rows[i].options, "class_name"),
                      kind |-> rows[i].kind]]]

\* views of ListIndexesTool.execute
ViewDescriptors(rows) ==
    [i \in DOMAIN rows |->
        [name |-> rows[i].view_name,
         baseTable |-> rows[i].base_table_name,
         type |-> "MATERIALIZED_VIEW",
         includedColumns |-> rows[i].included_columns,
         whereClause |-> rows[i].where_clause]]

\* an execute that reports zero index rows and zero view rows as empty listings
ListIndexesExecuteAlwaysListing(iRows, vRows, name) ==
    LET indexes == IndexDescriptors(IndexesQuery(iRows, name))
        views == ViewDescriptors(ViewsQuery(vRows, name))
    IN [secondaryIndexes |-> indexes,
        materializedViews |-> views,
        baseTable |-> name,
        keyspace |-> KeyspaceName,
        summary |-> [totalIndexes |-> Len(indexes), totalViews |-> Len(views)]]

\* the try block of ListIndexesTool.execute after the keyspace was found
ListIndexesExecute(iRows, vRows, name) ==
    LET indexes == IndexDescriptors(IndexesQuery(iRows, name))
        views == ViewDescriptors(ViewsQuery(vRows, name))
    IN IF Len(indexes) = 0 /\ Len(views) = 0
       THEN [message |->
                IF Truthy(name)
                THEN <<"No indexes or materialized views found for table '",
                       KeyspaceName, ".", name.v, "'.">>
                ELSE <<"No indexes or materialized views found in keyspace '",
                       KeyspaceName, "'.">>]
       ELSE [secondaryIndexes |-> indexes,
             materializedViews |-> views,
             baseTable |-> name,
             keyspace |-> KeyspaceName,
             summary |-> [totalIndexes |-> Len(indexes), totalViews |-> Len(views)]]

\* the catch block of ListIndexesTool.execute
ListIndexesFailed(message) == [error |-> <<"Failed to list indexes: ", message>>]

\* one run of ListIndexesTool.execute: the keyspace query, the indexes query and the
\* views query are the execute calls 1, 2 and 3 of the run
\* getCassandraClient is called before the try block: with client null its Error leaves
\* execute uncaught
ListIndexes ==
    IF client = 0
    THEN /\ indexesResult' = Thrown(NotInitialized)
         /\ UNCHANGED <<keyspaceRows, listedRows, indexRows, viewRows, tableName,
                        includeViews, tablesResult>>
         /\ UNCHANGED <<schemaVars, typeVars, connVars>>
    ELSE /\ indexesResult' =
               IF Rejects(dbFault, 1) THEN ListIndexesFailed(QueryError(1))
               ELSE IF Len(keyspaceRows) = 0
                    THEN [message |-> <<"Keyspace '", KeyspaceName, "' not found.">>]
               ELSE IF Rejects(dbFault, 2) THEN ListIndexesFailed(QueryError(2))
               ELSE IF Rejects(dbFault, 3) THEN ListIndexesFailed(QueryError(3))
               ELSE ListIndexesExecute(indexRows, viewRows, tableName)
         /\ UNCHANGED <<keyspaceRows, listedRows, indexRows, viewRows, tableName, includeViews,
                        tablesResult>>
         /\ UNCHANGED <<schemaVars, typeVars, connVars>>

(***************************************************************************)
(* cassandra_list_tables                                                   *)
(***************************************************************************)
\* the names of the model in the order of the default comparison of Array.prototype.sort
NamesAscending == <<"events", "events_by_day", "users", "users_by_mail">>

NameRank(name) == CHOOSE i \in DOMAIN NamesAscending : NamesAscending[i] = name

RECURSIVE InsertName(_, _)
InsertName(sorted, name) ==
    IF sorted = <<>> THEN <<name>>
    ELSE IF NameRank(Head(sorted)) <= NameRank(name)
         THEN <<Head(sorted)>> \o InsertName(Tail(sorted), name)
         ELSE <<name>> \o sorted

RECURSIVE SortNames(_)
\* Array.prototype.sort() over names
SortNames(names) ==
    IF names = <<>> THEN <<>>
    ELSE InsertName(SortNames(SubSeq(names, 1, Len(names) - 1)), names[Len(names)])

\* (row.flags || []).includes('materialized_view')
IsView(row) ==
    IF Truthy(row.flags) THEN Includes(row.flags.items, "materialized_view") ELSE FALSE

\* checkKeyspaceExists, whose query is execute call 1 of the run
checkKeyspaceExists(ksRows, fault) ==
    IF Rejects(fault, 1) THEN FALSE ELSE Len(ksRows) > 0

\* the first strategy of getTables, when its query succeeds
GetTablesWithFlags(tRows, withViews) ==
    IF Len(tRows) = 0 THEN [success |-> FALSE, error |-> JsNull, tables |-> <<>>]
    ELSE LET all == [i \in DOMAIN tRows |->
                        [name |-> tRows[i].table_name, isView |-> IsView(tRows[i])]]
             tables == IF ~withViews THEN SelectSeq(all, LAMBDA t : ~t.isView) ELSE all
         IN [success |-> TRUE,
             error |-> JsNull,
             tables |-> SortNames([i \in DOMAIN tables |-> tables[i].name]),
             viewCount |-> Len(SelectSeq(tables, LAMBDA t : t.isView)),
             tableCount |-> Len(SelectSeq(tables, LAMBDA t : ~t.isView))]

\* the second strategy of getTables, when its tables query succeeds: the views query,
\* if made, is execute call 4 of the run
GetTablesWithoutFlags(tRows, vRows, withViews, fault) ==
    IF Len(tRows) = 0 THEN [success |-> FALSE, error |-> JsNull, tables |-> <<>>]
    ELSE LET views == IF withViews /\ ~Rejects(fault, 4)
                      THEN [i \in DOMAIN vRows |-> vRows[i].view_name]
                      ELSE <<>>
             tables == [i \in DOMAIN tRows |-> tRows[i].table_name]
         IN [success |-> TRUE,
             error |-> JsNull,
             tables |-> SortNames(tables \o views),
             viewCount |-> Len(views),
             tableCount |-> Len(tables)]

\* getTables: the query of the first strategy is execute call 2 of the run, and the
\* tables query of the second strategy, made when call 2 rejects, is call 3
getTables(tRows, vRows, withViews, fault) ==
    IF ~Rejects(fault, 2) THEN GetTablesWithFlags(tRows, withViews)
    ELSE IF ~Rejects(fault, 3) THEN GetTablesWithoutFlags(tRows, vRows, withViews, fault)
    ELSE [success |-> FALSE, error |-> JsStr(QueryError(3)), tables |-> <<>>]

\* x || y over numbers
OrNumber(x, y) == IF x # 0 THEN x ELSE y

\* ListTablesTool.execute: the value its try block returns
ListTablesExecute(ksRows, tRows, vRows, withViews, fault) ==
    IF ~checkKeyspaceExists(ksRows, fault)
    THEN [success |-> FALSE,
          error |-> <<"Keyspace '", KeyspaceName, "' not found.">>,
          tables |-> <<>>]
    ELSE LET result == getTables(tRows, vRows, withViews, fault)
         IN IF ~result.success \/ Len(result.tables) = 0
            THEN [success |-> TRUE,
                  message |-> <<"No ", IF withViews THEN "tables or views" ELSE "tables",
                                " found in keyspace '", KeyspaceName, "'.">>,
                  tables |-> <<>>]
            ELSE [success |-> TRUE,
                  keyspace |-> KeyspaceName,
                  tables |-> result.tables,
                  count |-> [total |-> Len(result.tables),
                             tables |-> OrNumber(result.tableCount, Len(result.tables)),
                             views |-> OrNumber(result.viewCount, 0)]]

\* one run of ListTablesTool.execute; nothing in its try block throws, as
\* checkKeyspaceExists and getTables catch the rejections of their queries
\* getCassandraClient is called before the try block: with client null its Error leaves
\* execute uncaught
ListTables ==
    IF client = 0
    THEN /\ tablesResult' = Thrown(NotInitialized)
         /\ UNCHANGED <<keyspaceRows, listedRows, indexRows, viewRows, tableName,
                        includeViews, indexesResult>>
         /\ UNCHANGED <<schemaVars, typeVars, connVars>>
    ELSE /\ tablesResult' = ListTablesExecute(keyspaceRows, listedRows, viewRows, includeViews,
                                              dbFault)
         /\ UNCHANGED <<keyspaceRows, listedRows, indexRows, viewRows, tableName, includeViews,
                        indexesResult>>
         /\ UNCHANGED <<schemaVars, typeVars, connVars>>

(***************************************************************************)
(* The connection module: client, currentConnectionConfig, connectionTime, *)
(* getCassandraClient, connectToCassandra and disconnectFromCassandra.     *)
(* A call of an async function runs without interruption up to its next    *)
(* await, where it is suspended until the promise awaited settles; the     *)
(* steps of the calls in flight interleave at these points.                *)
(***************************************************************************)
\* the parameters connectToCassandra is called with: without and with a keyspace
ConnectionParams ==
    { [contactPoints |-> <<"10.0.0.1">>, localDataCenter |-> "dc1",
       keyspace |-> JsUndefined],
      [contactPoints |-> <<"10.0.0.2">>, localDataCenter |-> "dc2",
       keyspace |-> JsStr("ks")] }

NoParams == [contactPoints |-> <<>>, localDataCenter |-> "", keyspace |-> JsUndefined]

\* a call that was not made yet.  Of a call the model keeps, beside the place it is
\* suspended at and the promise it awaits, two facts for the properties: the Client it
\* constructed, and how many calls had begun when it returned
IdleCall == [op |-> "none", pc |-> "idle", params |-> NoParams, awaited |-> 0,
             outcome |-> "none", created |-> 0, begun |-> 0]

\* the number of calls that have begun
Begun == Cardinality({c \in 1..MaxCalls : calls[c].pc # "idle"})

\* the module state after load, with no call made
ConnIdle ==
    /\ client = 0
    /\ currentConnectionConfig = JsNull
    /\ connectionTime = JsUndefined
    /\ clients = <<>>
    /\ calls = [c \in 1..MaxCalls |-> IdleCall]
    /\ lastGet = NotCalled
    /\ lastStatus = NotCalled
    /\ queryResult = NotCalled

\* the module state after one connectToCassandra call, made without a keyspace, resolved
ConnReady ==
    LET params == [contactPoints |-> <<"10.0.0.1">>, localDataCenter |-> "dc1",
                   keyspace |-> JsUndefined]
    IN /\ client = 1
       /\ currentConnectionConfig = params
       /\ connectionTime = JsNum(1)
       /\ clients = <<[params |-> params, connect |-> "ok", shutdown |-> FALSE,
                       use |-> "none"]>>
       /\ calls = [c \in 1..MaxCalls |->
                      IF c = 1
                      THEN [op |-> "connect", pc |-> "done", params |-> params,
                            awaited |-> 0, outcome |-> "resolved", created |-> 1,
                            begun |-> 1]
                      ELSE IdleCall]
       /\ lastGet = NotCalled
       /\ lastStatus = NotCalled
       /\ queryResult = NotCalled

\* the calls are made in the order of their numbers
MayStart(c) ==
    /\ calls[c].pc = "idle"
    /\ \A d \in 1..(c - 1) : calls[d].pc # "idle"

\* call c returned or threw
Settled(c, outcome) ==
    [calls[c] EXCEPT !.pc = "done", !.awaited = 0, !.outcome = outcome, !.begun = Begun]

\* what getCassandraClient does: it throws when client is null, else it returns
\* client; the Client returned is recorded with the state of its connect() and whether
\* its shutdown() was invoked
ClientOutcome ==
    IF client = 0
    THEN [threw |-> NotInitialized]
    ELSE [returned |-> client,
          connect |-> clients[client].connect,
          shutdown |-> clients[client].shutdown]

\* one call of getCassandraClient
getCassandraClient ==
    /\ lastGet' = ClientOutcome
    /\ UNCHANGED <<client, currentConnectionConfig, connectionTime, clients, calls,
                   lastStatus, queryResult>>
    /\ UNCHANGED <<schemaVars, typeVars, listVars>>

\* the value getConnectionStatus returns
ConnectionStatus ==
    IF client = 0 THEN [isConnected |-> FALSE]
    ELSE [isConnected |-> TRUE,
          config |-> IF currentConnectionConfig # JsNull
                     THEN [contactPoints |-> currentConnectionConfig.contactPoints,
                           keyspace |-> currentConnectionConfig.keyspace,
                           localDataCenter |-> currentConnectionConfig.localDataCenter]
                     ELSE JsUndefined,
          connectionTime |-> connectionTime]

\* one call of getConnectionStatus
getConnectionStatus ==
    /\ lastStatus' = ConnectionStatus
    /\ UNCHANGED <<client, currentConnectionConfig, connectionTime, clients, calls, lastGet,
                   queryResult>>
    /\ UNCHANGED <<schemaVars, typeVars, listVars>>

\* connectToCassandra from `client = new Client(...)` to `await client.connect()`:
\* the Client constructed is stored in client before its connect() is awaited
ConnectCreate(c, params, heap) ==
    /\ clients' = Append(heap, [params |-> params, connect |-> "pending",
                                shutdown |-> FALSE, use |-> "none"])
    /\ client' = Len(heap) + 1
    /\ calls' = [calls EXCEPT ![c] = [op |-> "connect", pc |-> "await_connect",
                                      params |-> params, awaited |-> Len(heap) + 1,
                                      outcome |-> "none", created |-> Len(heap) + 1,
                                      begun |-> 0]]
    /\ UNCHANGED <<currentConnectionConfig, connectionTime>>

\* connectToCassandra from its entry to its first await: the shutdown() of the
\* Client in place, which stays in client meanwhile, or the connect() of a new one
ConnectStart(c) ==
    /\ MayStart(c)
    /\ \E params \in ConnectionParams :
          IF client # 0
          THEN /\ clients' = [clients EXCEPT ![client].shutdown = TRUE]
               /\ calls' = [calls EXCEPT ![c] = [op |-> "connect",
                                                 pc |-> "await_old_shutdown",
                                                 params |-> params, awaited |-> client,
                                                 outcome |-> "none", created |-> 0,
                                                 begun |-> 0]]
               /\ UNCHANGED <<client, currentConnectionConfig, connectionTime>>
          ELSE ConnectCreate(c, params, clients)
    /\ UNCHANGED <<lastGet, lastStatus, queryResult>>
    /\ UNCHANGED <<schemaVars, typeVars, listVars>>

\* connectToCassandra resumed after the shutdown() of the previous Client resolved
\* or rejected: the rejection is caught and logged
ConnectAfterOldShutdown(c) ==
    /\ calls[c].pc = "await_old_shutdown"
    /\ ConnectCreate(c, calls[c].params, clients)
    /\ UNCHANGED <<lastGet, lastStatus, queryResult>>
    /\ UNCHANGED <<schemaVars, typeVars, listVars>>

\* connectToCassandra resumed after connect() settled, with a catch block that throws
\* without clearing the saved configuration and the connection time
ConnectAfterConnectKeepingConfig(c) ==
    /\ calls[c].pc = "await_connect"
    /\ \E resolved \in BOOLEAN :
          /\ clients' = [clients EXCEPT ![calls[c].awaited].connect =
                            IF resolved THEN "ok" ELSE "failed"]
          /\ IF resolved
             THEN /\ currentConnectionConfig' = calls[c].params
                  /\ connectionTime' = JsNum(calls[c].awaited)
                  /\ calls' = [calls EXCEPT ![c] =
                        IF Truthy(calls[c].params.keyspace) /\ client # 0
                        THEN [calls[c] EXCEPT !.pc = "await_use", !.awaited = client]
                        ELSE Settled(c, "resolved")]
                  /\ UNCHANGED client
             ELSE /\ client' = 0
                  /\ UNCHANGED <<currentConnectionConfig, connectionTime>>
                  /\ calls' = [calls EXCEPT ![c] = Settled(c, "Failed to connect to Cassandra")]
    /\ UNCHANGED <<lastGet, lastStatus, queryResult>>
    /\ UNCHANGED <<schemaVars, typeVars, listVars>>

\* connectToCassandra resumed after connect() settled.  Resolved: the parameters and
\* the instant are stored, and with a keyspace `client.execute` is evaluated on the
\* module variable: a null client raises TypeError, which the inner catch logs.
\* Rejected: the catch block clears the module variables and throws.  The instant is
\* modelled by the number of the Client whose connect() resolved.
ConnectAfterConnect(c) ==
    /\ calls[c].pc = "await_connect"
    /\ \E resolved \in BOOLEAN :
          /\ clients' = [clients EXCEPT ![calls[c].awaited].connect =
                            IF resolved THEN "ok" ELSE "failed"]
          /\ IF resolved
             THEN /\ currentConnectionConfig' = calls[c].params
                  /\ connectionTime' = JsNum(calls[c].awaited)
                  /\ calls' = [calls EXCEPT ![c] =
                        IF Truthy(calls[c].params.keyspace) /\ client # 0
                        THEN [calls[c] EXCEPT !.pc = "await_use", !.awaited = client]
                        ELSE Settled(c, "resolved")]
                  /\ UNCHANGED client
             ELSE /\ client' = 0
                  /\ currentConnectionConfig' = JsNull
                  /\ connectionTime' = JsUndefined
                  /\ calls' = [calls EXCEPT ![c] = Settled(c, "Failed to connect to Cassandra")]
    /\ UNCHANGED <<lastGet, lastStatus, queryResult>>
    /\ UNCHANGED <<schemaVars, typeVars, listVars>>

\* connectToCassandra resumed after the USE statement resolved or rejected: the
\* rejection is caught and logged, and the call returns either way
ConnectAfterUse(c) ==
    /\ calls[c].pc = "await_use"
    /\ \E resolved \in BOOLEAN :
          clients' = [clients EXCEPT ![calls[c].awaited].use =
                        IF resolved THEN "ok" ELSE "failed"]
    /\ calls' = [calls EXCEPT ![c] = Settled(c, "resolved")]
    /\ UNCHANGED <<client, currentConnectionConfig, connectionTime, lastGet, lastStatus, queryResult>>
    /\ UNCHANGED <<schemaVars, typeVars, listVars>>

\* disconnectFromCassandra from its entry to `await client.shutdown()`, or to its
\* return when client is null
DisconnectStart(c) ==
    /\ MayStart(c)
    /\ IF client # 0
       THEN /\ clients' = [clients EXCEPT ![client].shutdown = TRUE]
            /\ calls' = [calls EXCEPT ![c] = [op |-> "disconnect", pc |-> "await_shutdown",
                                              params |-> NoParams, awaited |-> client,
                                              outcome |-> "none", created |-> 0,
                                              begun |-> 0]]
       ELSE /\ calls' = [calls EXCEPT ![c] = [op |-> "disconnect", pc |-> "done",
                                              params |-> NoParams, awaited |-> 0,
                                              outcome |-> "resolved", created |-> 0,
                                              begun |-> Begun + 1]]
            /\ UNCHANGED clients
    /\ UNCHANGED <<client, currentConnectionConfig, connectionTime, lastGet, lastStatus, queryResult>>
    /\ UNCHANGED <<schemaVars, typeVars, listVars>>

\* disconnectFromCassandra resumed after shutdown() settled: the finally block clears
\* the module variables whether it resolved or rejected
DisconnectAfterShutdown(c) ==
    /\ calls[c].pc = "await_shutdown"
    /\ \E resolved \in BOOLEAN :
          calls' = [calls EXCEPT ![c] =
                      Settled(c, IF resolved THEN "resolved"
                                 ELSE "Failed to disconnect from Cassandra")]
    /\ client' = 0
    /\ currentConnectionConfig' = JsNull
    /\ connectionTime' = JsUndefined
    /\ UNCHANGED <<clients, lastGet, lastStatus, queryResult>>
    /\ UNCHANGED <<schemaVars, typeVars, listVars>>

(***************************************************************************)
(* The catalogs the tools are run against.                                 *)
(***************************************************************************)
Names == {"id", "ts", "value"}

\* the text of the type column of system_schema.columns
ColumnTypeOf(name) ==
    CASE name = "id" -> JsStr("uuid")
      [] name = "ts" -> JsStr("timestamp")
      [] OTHER -> JsStr("double")

\* two layouts of the position column: positions in declaration order, and the
\* positions a table with partition key id, clustering key ts and regular column
\* value has (positions count within each kind, -1 for regular columns)
DeclaredLayout == [n \in Names |-> CASE n = "id" -> 0 [] n = "ts" -> 1 [] OTHER -> 2]
KindLayout == [n \in Names |-> CASE n = "id" -> 0 [] n = "ts" -> 0 [] OTHER -> -1]

ColumnRow(name, layout) ==
    [column_name |-> name, type |-> ColumnTypeOf(name), position |-> layout[name]]

\* the orders in which the columns of a table with columns {}, {id}, {id, ts} or
\* {id, ts, value} can be stored
ColumnOrders ==
    { <<>>, <<"id">>, <<"id", "ts">>, <<"ts", "id">>,
      <<"id", "ts", "value">>, <<"id", "value", "ts">>, <<"ts", "id", "value">>,
      <<"ts", "value", "id">>, <<"value", "id", "ts">>, <<"value", "ts", "id">> }

ColumnCatalogs ==
    { [i \in DOMAIN order |-> ColumnRow(order[i], layout)] :
        order \in ColumnOrders, layout \in {DeclaredLayout, KindLayout} }

\* the values the clustering_order column holds for a clustering key on a column:
\* absent, a recognized order, an unrecognized one
ClusteringOrdersOf(name) ==
    CASE name = "id" -> {JsNull}
      [] name = "ts" -> {JsStr("desc")}
      [] OTHER -> {JsStr("asc"), JsStr("none")}

KeyRowsOf(name) ==
    { [column_name |-> name, kind |-> "partition_key", position |-> p,
       clustering_order |-> JsNull] : p \in {0, 1} }
    \cup { [column_name |-> name, kind |-> "clustering", position |-> p,
            clustering_order |-> o] : p \in {0, 1}, o \in ClusteringOrdersOf(name) }

AllKeyRows == UNION {KeyRowsOf(n) : n \in Names}

\* sequences of at most MaxKeys key rows, one row per column at most
KeyCatalogs ==
    UNION { { k \in [1..n -> AllKeyRows] :
                \A i, j \in 1..n : i # j => k[i].column_name # k[j].column_name } :
            n \in 0..MaxKeys }

\* a row of system_schema.tables with its options unset, and one with options set
TableRowUnset ==
    JsObj(<< <<"keyspace_name", JsStr(KeyspaceName)>>, <<"table_name", JsStr(TableName)>>,
             <<"comment", JsNull>>, <<"gc_grace_seconds", JsNull>> >>)
TableRowSet ==
    JsObj(<< <<"keyspace_name", JsStr(KeyspaceName)>>, <<"table_name", JsStr(TableName)>>,
             <<"comment", JsStr("hello")>>, <<"gc_grace_seconds", JsNum(864000)>> >>)

\* a row as a table created with default options has it: an empty comment, a map for
\* caching, zero for default_time_to_live, and no value for compaction
TableRowDefaults ==
    JsObj(<< <<"keyspace_name", JsStr(KeyspaceName)>>, <<"table_name", JsStr(TableName)>>,
             <<"caching", JsObj(<< <<"keys", JsStr("ALL")>>,
                                   <<"rows_per_partition", JsStr("NONE")>> >>)>>,
             <<"comment", JsStr("")>>,
             <<"compaction", JsNull>>,
             <<"default_time_to_live", JsNum(0)>>,
             <<"speculative_retry", JsStr("99p")>> >>)

\* the catalogs: every column and key catalog for a table without options; for a
\* table with options and for a missing table, the catalogs of at most one key row;
\* for a table with options, the key rows of a table keyed by id and clustered by ts
\* as well
SmallKeyCatalogs == {k \in KeyCatalogs : Len(k) <= 1}

PartitionAndClusteringKeys ==
    << [column_name |-> "id", kind |-> "partition_key", position |-> 0,
        clustering_order |-> JsNull],
       [column_name |-> "ts", kind |-> "clustering", position |-> 0,
        clustering_order |-> JsStr("desc")] >>

Catalogs ==
    ({<<TableRowUnset>>} \X ColumnCatalogs \X KeyCatalogs)
    \cup ({<<TableRowSet>>, <<TableRowDefaults>>, <<>>} \X ColumnCatalogs \X SmallKeyCatalogs)
    \cup ({<<TableRowSet>>} \X ColumnCatalogs \X {PartitionAndClusteringKeys})

(***************************************************************************)
(* The raw type descriptors resolved: leaves, and objects nesting a        *)
(* descriptor up to MaxDepth levels deep.                                  *)
(***************************************************************************)
U == JsUndefined
TextType == JsStr("text")

LeafDescriptors ==
    { TextType, JsNull, JsNum(42),
      TypeObj(U, U, U),
      TypeObj(JsNum(0), U, U),
      TypeObj(JsNum(9), U, U),
      TypeObj(JsNum(99), U, U),
      TypeObj(U, JsStr("frozen"), U),
      TypeObj(U, U, JsArray(<<>>)),
      TypeObj(U, U, InfoObj(U, U, U, JsArray(<<>>))),
      TypeObj(U, U, InfoObj(U, U, U, U)),
      Self }

Nestings(c) ==
    { TypeObj(U, U, InfoObj(U, U, c, U)),
      TypeObj(U, U, InfoObj(c, TextType, U, U)),
      TypeObj(U, U, InfoObj(TextType, c, U, U)),
      TypeObj(U, U, JsArray(<<c>>)),
      TypeObj(U, U, JsArray(<<c, TextType>>)),
      TypeObj(U, U, JsArray(<<TextType, c>>)),
      TypeObj(U, U, InfoObj(U, U, U, JsArray(<<c>>))),
      TypeObj(U, U, InfoObj(U, U, U, JsArray(<<c, TextType>>))),
      TypeObj(U, U, InfoObj(U, U, U, JsArray(<<TextType, c>>))),
      TypeObj(JsNum(33), JsStr("frozen"), InfoObj(c, TextType, U, U)),
      TypeObj(U, JsStr("frozen"), InfoObj(U, U, c, U)),
      TypeObj(U, U, InfoObj(c, TextType, TextType, U)),
      TypeObj(U, U, InfoObj(c, U, U, U)),
      TypeObj(U, U, InfoObj(U, U, c, JsArray(<<TextType>>))) }

RECURSIVE Descriptors(_)
Descriptors(depth) ==
    IF depth = 0 THEN LeafDescriptors
    ELSE LET inner == Descriptors(depth - 1)
         IN inner \cup UNION {Nestings(c) : c \in inner}

(***************************************************************************)
(* Specifications.                                                         *)
(***************************************************************************)
TypeIdle ==
    /\ type = TextType
    /\ stackLimit = 0
    /\ typeResult = NotCalled
    /\ typeCalls = {}
    /\ typeDepth = 0

ListIdle ==
    /\ keyspaceRows = <<>>
    /\ listedRows = <<>>
    /\ indexRows = <<>>
    /\ viewRows = <<>>
    /\ tableName = JsUndefined
    /\ includeViews = FALSE
    /\ indexesResult = NotCalled
    /\ tablesResult = NotCalled

SchemaIdle ==
    /\ tableRows = <<>>
    /\ columnRows = <<>>
    /\ keyRows = <<>>
    /\ keysResult = <<>>
    /\ keysReturned = <<>>
    /\ dbFault = "none"
    /\ showResult = NotCalled
    /\ describeResult = NotCalled

Init ==
    /\ \E c \in Catalogs :
          /\ tableRows = c[1]
          /\ columnRows = c[2]
          /\ keyRows = c[3]
    /\ keysResult = <<>>
    /\ keysReturned = <<>>
    /\ dbFault = "none"
    /\ showResult = NotCalled
    /\ describeResult = NotCalled
    /\ TypeIdle
    /\ ListIdle
    /\ ConnReady

Next == ShowCreateTable \/ DescribeTable

Spec == Init /\ [][Next]_vars

\* the tools run against a database that rejects queries: a table found or not found
\* with at most one key row, and a table found with every key catalog
FaultInit ==
    /\ \E c \in ({<<TableRowUnset>>, <<>>} \X ColumnCatalogs \X SmallKeyCatalogs)
                  \cup ({<<TableRowUnset>>} \X ColumnCatalogs \X KeyCatalogs) :
          /\ tableRows = c[1]
          /\ columnRows = c[2]
          /\ keyRows = c[3]
    /\ dbFault \in DbFaults
    /\ keysResult = <<>>
    /\ keysReturned = <<>>
    /\ showResult = NotCalled
    /\ describeResult = NotCalled
    /\ TypeIdle
    /\ ListIdle
    /\ ConnReady

FaultNext == ShowCreateTable \/ DescribeTable

FaultSpec == FaultInit /\ [][FaultNext]_vars

(***************************************************************************)
(* The keyspaces the listing tools are run against.                        *)
(***************************************************************************)
\* the sequences of at most MaxRows different rows of a set
RowSequences(rows) ==
    UNION { { q \in [1..n -> rows] : \A i, j \in 1..n : i # j => q[i] # q[j] } :
            n \in 0..MaxRows }

KeyspaceRow == [keyspace_name |-> KeyspaceName]

ListedRowPool ==
    { [table_name |-> "users", flags |-> JsNull],
      [table_name |-> "events", flags |-> JsArray(<<"compound">>)],
      [table_name |-> "events_by_day", flags |-> JsArray(<<"compound", "materialized_view">>)] }

\* included_columns and where_clause of a view row
AllColumns == JsArray(<<"*">>)
DayIsNotNull == JsStr("day IS NOT NULL")

ViewRowPool ==
    { [view_name |-> "events_by_day", base_table_name |-> "events",
       included_columns |-> AllColumns, where_clause |-> DayIsNotNull],
      [view_name |-> "users_by_mail", base_table_name |-> "users",
       included_columns |-> AllColumns, where_clause |-> DayIsNotNull] }

IndexRowPool ==
    { [index_name |-> "users_mail_idx", table_name |-> "users", kind |-> "COMPOSITES",
       options |-> JsObj(<< <<"target", JsStr("mail")>> >>)],
      [index_name |-> "users_name_idx", table_name |-> "users", kind |-> "CUSTOM",
       options |-> JsObj(<< <<"class_name", JsStr("SASIIndex")>>,
                            <<"target", JsStr("name")>> >>)],
      [index_name |-> "events_kind_idx", table_name |-> "events", kind |-> "KEYS",
       options |-> JsNull] }

\* the values of input.tableName: absent, empty, a table with rows, a table without
TableNameInputs == {JsUndefined, JsStr(""), JsStr("users"), JsStr("events"), JsStr("t")}

\* the keyspaces: for the listing of indexes, every sequence of index rows and view
\* rows with every table name; for the listing of tables, every sequence of table
\* rows and view rows with both values of includeViews; the table looked up by
\* cassandra_show_create_table and cassandra_describe_table is missing or has no columns
ListInit ==
    /\ keyspaceRows \in {<<>>, <<KeyspaceRow>>}
    /\ viewRows \in RowSequences(ViewRowPool)
    /\ dbFault \in DbFaults
    /\ \/ /\ indexRows \in RowSequences(IndexRowPool)
          /\ tableName \in TableNameInputs
          /\ listedRows = <<>>
          /\ includeViews = FALSE
       \/ /\ indexRows = <<>>
          /\ tableName = JsUndefined
          /\ listedRows \in RowSequences(ListedRowPool)
          /\ includeViews \in BOOLEAN
    /\ indexesResult = NotCalled
    /\ tablesResult = NotCalled
    /\ tableRows \in {<<>>, <<TableRowUnset>>}
    /\ columnRows = <<>>
    /\ keyRows = <<>>
    /\ keysResult = <<>>
    /\ keysReturned = <<>>
    /\ showResult = NotCalled
    /\ describeResult = NotCalled
    /\ TypeIdle
    /\ ConnReady

ListNext == ListIndexes \/ ListTables \/ ShowCreateTable \/ DescribeTable

ListSpec == ListInit /\ [][ListNext]_vars

\* one call of getColumnTypeString on the descriptor
ResolveType ==
    /\ \E limit \in StackLimits :
          /\ stackLimit' = limit
          /\ typeResult' = JsStr(getColumnTypeString(type, type, 1, limit))
          /\ typeCalls' = TypeCalls(type, type, 1, limit)
          /\ typeDepth' = TypeCallDepth(type, type, 1, limit)
    /\ UNCHANGED type
    /\ UNCHANGED <<schemaVars, listVars, connVars>>

TypeInit ==
    /\ type \in Descriptors(MaxDepth) \ {Self}
    /\ stackLimit = 0
    /\ typeResult = NotCalled
    /\ typeCalls = {}
    /\ typeDepth = 0
    /\ SchemaIdle
    /\ ListIdle
    /\ ConnIdle

TypeNext == ResolveType

TypeSpec == TypeInit /\ [][TypeNext]_vars

(***************************************************************************)
(* cassandra_execute_query                                                 *)
(***************************************************************************)
\* the rows of the ResultSet of the statement executed
QueryRows == <<[id |-> "1"]>>

\* the catch block of ExecuteQueryTool.execute: a string
QueryFailed(message) == JsStr(<<"Failed to execute query: ", message>>)

\* one run of ExecuteQueryTool.execute: getCassandraClient is called inside the try
\* block, so its Error is caught like the rejection of the execute call
ExecuteQuery ==
    /\ queryResult' = IF client = 0 THEN QueryFailed(NotInitialized)
                      ELSE IF Rejects(dbFault, 1) THEN QueryFailed(QueryError(1))
                      ELSE [rows |-> QueryRows]
    /\ UNCHANGED <<client, currentConnectionConfig, connectionTime, clients, calls, lastGet,
                   lastStatus>>
    /\ UNCHANGED <<schemaVars, typeVars, listVars>>

\* the connection module from its load on: at most MaxCalls calls of
\* connectToCassandra and disconnectFromCassandra, in flight together, and calls of
\* getCassandraClient between their steps
ConnInit ==
    /\ ConnIdle
    /\ SchemaIdle
    /\ TypeIdle
    /\ ListIdle

\* a step of a call of connectToCassandra or disconnectFromCassandra
CallsNext ==
    \E c \in 1..MaxCalls :
        \/ ConnectStart(c)
        \/ ConnectAfterOldShutdown(c)
        \/ ConnectAfterConnect(c)
        \/ ConnectAfterUse(c)
        \/ DisconnectStart(c)
        \/ DisconnectAfterShutdown(c)

\* the calls alone
CallsSpec == ConnInit /\ [][CallsNext]_vars

ConnNext ==
    \/ getCassandraClient
    \/ getConnectionStatus
    \/ CallsNext

ConnSpec == ConnInit /\ [][ConnNext]_vars

\* the tools run between the steps of the calls, against empty catalogs
ToolNext ==
    \/ ShowCreateTable
    \/ ListIndexes
    \/ ExecuteQuery
    \/ CallsNext

ToolSpec == ConnInit /\ [][ToolNext]_vars

(***************************************************************************)
(* Properties.                                                             *)
(***************************************************************************)
ShowReturnedSchema == "schema" \in DOMAIN showResult
ShowReturnedMessage == "message" \in DOMAIN showResult
DescribeReturnedSchema == "partitionKeys" \in DOMAIN describeResult

KeyIndexesOfKind(keys, kind) == {i \in DOMAIN keys : keys[i].kind = kind}

\* no allow-listed option of the table row holds a value
NoOptionSet(tableInfo) ==
    \A i \in DOMAIN tableInfo.entries :
        Includes(optionsToInclude, tableInfo.entries[i][1]) => tableInfo.entries[i][2] = JsNull

\* the statement C1 gives for columns cols, partition key p and clustering keys cks
C1_Statement(cols, p, cks) ==
    "CREATE TABLE ks.t (\n"
    \o JoinStrings([i \in DOMAIN cols |->
                      "  " \o cols[i].column_name \o " " \o cols[i].type.v], ",\n")
    \o ",\n  PRIMARY KEY (" \o p \o ", "
    \o JoinStrings([i \in DOMAIN cks |-> cks[i].name], ", ")
    \o ")\n) WITH CLUSTERING ORDER BY ("
    \o JoinStrings([i \in DOMAIN cks |-> cks[i].name \o " " \o cks[i].order], ", ")
    \o ");"

C1_ExampleText ==
    "CREATE TABLE ks.t (\n  id uuid,\n  ts timestamp,\n  value double,\n  PRIMARY KEY (id, ts)\n) WITH CLUSTERING ORDER BY (ts DESC);"

C1_ExampleCatalog ==
    /\ tableRows = <<TableRowUnset>>
    /\ columnRows = <<ColumnRow("id", DeclaredLayout), ColumnRow("ts", DeclaredLayout),
                      ColumnRow("value", DeclaredLayout)>>
    /\ keyRows = << [column_name |-> "id", kind |-> "partition_key", position |-> 0,
                     clustering_order |-> JsNull],
                    [column_name |-> "ts", kind |-> "clustering", position |-> 0,
                     clustering_order |-> JsStr("desc")] >>

\* C1: for a table with at least one column, exactly one partition key p, clustering
\* keys k1..km (m >= 1) with orders o1..om and no option set, the statement returned
\* is 'CREATE TABLE ks.t (\n' + the columns as '  <name> <type>' joined by ',\n'
\* + ',\n  PRIMARY KEY (p, k1, ..., km)\n) WITH CLUSTERING ORDER BY (k1 o1, ..., km om);'
\* and for the example of the specification it is the text given there.
C1_DdlTextExact ==
    ShowReturnedSchema =>
        /\ ( /\ Cardinality(KeyIndexesOfKind(keyRows, "partition_key")) = 1
             /\ Cardinality(KeyIndexesOfKind(keyRows, "clustering")) >= 1
             /\ NoOptionSet(tableRows[1]) )
           => Text(showResult.schema)
                = C1_Statement(ShowColumnsQuery(columnRows),
                               keyRows[CHOOSE i \in DOMAIN keyRows :
                                          keyRows[i].kind = "partition_key"].column_name,
                               ShowClusteringKeys(ShowKeysQuery(keyRows)))
        /\ C1_ExampleCatalog => Text(showResult.schema) = C1_ExampleText

C1_Witness ==
    /\ C1_ExampleCatalog
    /\ ShowReturnedSchema
    /\ Text(showResult.schema) = C1_ExampleText

C1_WitnessTwoClustering ==
    /\ ShowReturnedSchema
    /\ Cardinality(KeyIndexesOfKind(keyRows, "partition_key")) = 1
    /\ Cardinality(KeyIndexesOfKind(keyRows, "clustering")) = 2

\* C2: a call that finds the table row and zero column rows returns the 'No columns
\* found' message and no schema, whatever the key rows and the table options are;
\* with zero column rows no call returns a schema.
C2_NoColumnsNoText ==
    (showResult # NotCalled /\ columnRows = <<>>) =>
        /\ ~ShowReturnedSchema
        /\ Len(tableRows) > 0 =>
              /\ ShowReturnedMessage
              /\ Text(showResult.message) = "No columns found for table 'ks.t'."

C2_Witness ==
    /\ columnRows = <<>>
    /\ tableRows = <<TableRowSet>>
    /\ keyRows # <<>>
    /\ ShowReturnedMessage
    /\ Text(showResult.message) = "No columns found for table 'ks.t'."

\* the name of the i-th column line of a statement (i from 1): the statement opens with
\* five pieces, and each column line is four pieces followed by a separator
EmittedColumnName(statement, i) == statement[2 + 5 * i]

PositionOfColumn(name) ==
    columnRows[CHOOSE i \in DOMAIN columnRows : columnRows[i].column_name = name].position

PlaceInKind(keys, i) ==
    1 + Cardinality({j \in KeyIndexesOfKind(keys, keys[i].kind) :
                        \/ keys[j].position < keys[i].position
                        \/ keys[j].position = keys[i].position /\ j < i})

\* names are the columns of the rows of one kind, ascending by position, rows of equal
\* position in the order supplied
ClassifiedStably(names, keys, kind) ==
    /\ Len(names) = Cardinality(KeyIndexesOfKind(keys, kind))
    /\ \A i \in KeyIndexesOfKind(keys, kind) : names[PlaceInKind(keys, i)] = keys[i].column_name

\* C4: in both tools the key rows are split by kind and each kind is ordered ascending
\* by position, for every order in which the rows are supplied; rows of one kind with
\* the same position keep the order in which they were supplied, so every call on the
\* same rows gives the same sequences, and no call on a described table fails.
C4_ClassifyStable ==
    /\ describeResult # NotCalled /\ Len(tableRows) > 0 =>
          /\ DescribeReturnedSchema
          /\ ClassifiedStably(describeResult.partitionKeys, keyRows, "partition_key")
          /\ ClassifiedStably(describeResult.clusteringKeys, keyRows, "clustering")
    /\ showResult # NotCalled /\ Len(tableRows) > 0 /\ Len(columnRows) > 0 =>
          /\ ShowReturnedSchema
          /\ ClassifiedStably(ShowPartitionKeys(ShowKeysQuery(keyRows)),
                              ShowKeysQuery(keyRows), "partition_key")
          /\ ClassifiedStably(ColumnNames([i \in DOMAIN ShowClusteringKeys(ShowKeysQuery(keyRows))
                                             |-> [column_name |-> ShowClusteringKeys(ShowKeysQuery(keyRows))[i].name]]),
                              ShowKeysQuery(keyRows), "clustering")
          /\ ClassifiedStably(ShowPartitionKeys(ShowKeysQuery(keyRows)), keyRows, "partition_key")

C4_Witness ==
    /\ DescribeReturnedSchema
    /\ ShowReturnedSchema
    /\ Len(keyRows) = 3
    /\ keyRows[1].kind = "clustering" /\ keyRows[3].kind = "clustering"
    /\ keyRows[2].kind = "partition_key"
    /\ keyRows[1].position = 1 /\ keyRows[2].position = 0 /\ keyRows[3].position = 1
    /\ describeResult.clusteringKeys = <<keyRows[1].column_name, keyRows[3].column_name>>

\* whether a clustering_order value is asc or desc in some letter case
RecognizedOrder(o) == o.t = "string" /\ o.v \in {"asc", "desc", "ASC", "DESC", "Asc", "Desc"}

KeyRowOf(name) == keyRows[CHOOSE i \in DOMAIN keyRows : keyRows[i].column_name = name]

\* where the clustering order clause of a statement starts, 0 when it has none
OrderClauseStart(statement) ==
    IF \E i \in DOMAIN statement : statement[i] = " WITH CLUSTERING ORDER BY ("
    THEN CHOOSE i \in DOMAIN statement : statement[i] = " WITH CLUSTERING ORDER BY ("
    ELSE 0

\* the i-th (name, order) pair of the clustering order clause: each pair is three
\* pieces followed by a separator
EmittedOrderPair(statement, i) ==
    LET at == OrderClauseStart(statement) + 4 * (i - 1)
    IN [name |-> statement[at + 1], order |-> statement[at + 3]]

\* C5: every clustering order reported, by the description and by the statement, is
\* ASC or DESC, and it is ASC when the clustering_order field of the key row is absent
\* or holds anything other than asc / desc.
C5_OrderAscOrDesc ==
    /\ DescribeReturnedSchema =>
          \A i \in DOMAIN describeResult.clusteringOrder :
              LET entry == describeResult.clusteringOrder[i]
              IN /\ entry.order \in {"ASC", "DESC"}
                 /\ ~RecognizedOrder(KeyRowOf(entry.column).clustering_order)
                       => entry.order = "ASC"
    /\ ShowReturnedSchema =>
          \A i \in 1..Cardinality(KeyIndexesOfKind(keyRows, "clustering")) :
              LET pair == EmittedOrderPair(showResult.schema, i)
              IN /\ pair.order \in {"ASC", "DESC"}
                 /\ ~RecognizedOrder(KeyRowOf(pair.name).clustering_order)
                       => pair.order = "ASC"

\* a catalog as the data model has it: every key row names a column of the table, the
\* positions of each kind are 0, 1, ... without repetition, and there is a partition key
WellFormedCatalog ==
    /\ \A i \in DOMAIN keyRows :
          \E j \in DOMAIN columnRows : columnRows[j].column_name = keyRows[i].column_name
    /\ \A kind \in {"partition_key", "clustering"} :
          {keyRows[i].position : i \in KeyIndexesOfKind(keyRows, kind)}
             = 0..(Cardinality(KeyIndexesOfKind(keyRows, kind)) - 1)
    /\ KeyIndexesOfKind(keyRows, "partition_key") # {}

\* C6: for the same key rows and column rows of a well-formed catalog, the description
\* and the statement give the same partition keys, the same clustering keys and the
\* same (clustering key, order) pairs, each in position order, and a column is tagged
\* partition_key / clustering_key in the description exactly when it is in the
\* partition / clustering part of the PRIMARY KEY clause.
C6_DescribeAgreesWithDdl ==
    (DescribeReturnedSchema /\ ShowReturnedSchema /\ WellFormedCatalog) =>
        LET partitionKeys == ShowPartitionKeys(ShowKeysQuery(keyRows))
            clusteringKeys == ShowClusteringKeys(ShowKeysQuery(keyRows))
        IN /\ describeResult.partitionKeys = partitionKeys
           /\ describeResult.clusteringKeys
                = [i \in DOMAIN clusteringKeys |-> clusteringKeys[i].name]
           /\ describeResult.clusteringOrder
                = [i \in DOMAIN clusteringKeys |->
                      [column |-> clusteringKeys[i].name, order |-> clusteringKeys[i].order]]
           /\ \A i \in DOMAIN clusteringKeys :
                 EmittedOrderPair(showResult.schema, i) = clusteringKeys[i]
           /\ \A i \in DOMAIN describeResult.columns :
                 LET col == describeResult.columns[i]
                 IN /\ col.kind = "partition_key" <=> Includes(partitionKeys, col.name)
                    /\ col.kind = "clustering_key"
                          <=> \E j \in DOMAIN clusteringKeys : clusteringKeys[j].name = col.name

(***************************************************************************)
(* Properties of type resolution.                                          *)
(***************************************************************************)
TypeResolved == typeResult # NotCalled

HasNoCodeNoName(ty) == ty.t = "descriptor" /\ ty.code = JsUndefined /\ ~Truthy(ty.name)

HasKeyValuePair(ty) ==
    ty.t = "descriptor" /\ Truthy(KeyTypeOf(ty.info)) /\ Truthy(ValueTypeOf(ty.info))
HasElementType(ty) == ty.t = "descriptor" /\ Truthy(ElementTypeOf(ty.info))
HasSubDescriptorArray(ty) == ty.t = "descriptor" /\ IsArray(ty.info)
HasNamedSequence(ty) == ty.t = "descriptor" /\ IsArray(TypesOf(ty.info))

\* a descriptor that is not a string and has no code, no name, no key/value pair, no
\* element type, no array of sub-descriptors and no named sequence
UnrecognizedShape(ty) ==
    /\ ty.t # "string"
    /\ ty.t = "descriptor" =>
          /\ ty.code = JsUndefined
          /\ ~Truthy(ty.name)
          /\ ~HasKeyValuePair(ty)
          /\ ~HasElementType(ty)
          /\ ~HasSubDescriptorArray(ty)
          /\ ~HasNamedSequence(ty)

\* C7: every resolution returns a string, and a descriptor that matches none of the
\* recognized shapes resolves to "unknown".
C7_UnrecognizedIsUnknown ==
    TypeResolved =>
        /\ typeResult.t = "string"
        /\ UnrecognizedShape(type) => typeResult.v = "unknown"

\* C8: a string resolves to itself; a non-string descriptor with a numeric code resolves
\* to the name the code table gives for the code, or to type_<code> when the table has
\* no entry, whatever name and info it also carries; a descriptor without a code and
\* with a name resolves to the name, whatever info it carries.
C8_CodeBeforeNameBeforeInfo ==
    TypeResolved =>
        /\ (type.t = "string" /\ type.v # "") => typeResult.v = type.v
        /\ (type.t = "descriptor" /\ type.code.t = "number") =>
              IF \E i \in DOMAIN dataTypes : dataTypes[i][2] = type.code.v
              THEN \E i \in DOMAIN dataTypes :
                      dataTypes[i][2] = type.code.v /\ typeResult.v = dataTypes[i][1]
              ELSE typeResult.v = "type_" \o ToString(type.code.v)
        /\ (type.t = "descriptor" /\ type.code = JsUndefined /\ Truthy(type.name)) =>
              typeResult.v = type.name.v

C8_Witness ==
    /\ type = TypeObj(JsNum(33), JsStr("frozen"), InfoObj(TextType, TextType, JsUndefined, JsUndefined))
    /\ typeResult = JsStr("map")

\* the rendering of a sub-descriptor of the descriptor resolved
RenderedSub(sub) == getColumnTypeString(sub, type, 2, stackLimit)

\* key/value sub-descriptors give map<K, V>, otherwise an element sub-descriptor gives
\* list<E>, otherwise a named sequence of sub-descriptors gives tuple<T1, ..., Tn>
CompositeRendered ==
    /\ HasKeyValuePair(type) =>
          typeResult.v = "map<" \o RenderedSub(type.info.keyType) \o ", "
                       \o RenderedSub(type.info.valueType) \o ">"
    /\ (HasElementType(type) /\ ~HasKeyValuePair(type)) =>
          typeResult.v = "list<" \o RenderedSub(type.info.elementType) \o ">"
    /\ (HasNamedSequence(type) /\ ~HasKeyValuePair(type) /\ ~HasElementType(type)) =>
          /\ typeResult.v = "tuple<"
                \o JoinStrings([i \in DOMAIN type.info.types.items |->
                                   RenderedSub(type.info.types.items[i])], ", ")
                \o ">"
          /\ \A i \in DOMAIN type.info.types.items :
                Deref(type.info.types.items[i], type) \in typeCalls

\* C9 as amended: for a descriptor with no code and no name, composites are rendered as
\* map<K, V>, list<E> and tuple<T1, ..., Tn> from the renderings of all their
\* sub-descriptors, but an array of sub-descriptors gives set<E> where E is the
\* rendering of its first entry alone: an entry after the first is resolved only where
\* the descriptor itself or the first entry leads to it, and an empty array gives
\* set<unknown>.
C9_SetRendersFirstEntryOnly ==
    (TypeResolved /\ HasNoCodeNoName(type)) =>
        /\ CompositeRendered
        /\ HasSubDescriptorArray(type) =>
              /\ typeResult.v = "set<" \o RenderedSub(At(type.info, 0)) \o ">"
              /\ type.info.items = <<>> => typeResult.v = "set<unknown>"
              /\ \A i \in DOMAIN type.info.items :
                    (i > 1 /\ Deref(type.info.items[i], type) \in typeCalls)
                       => Deref(type.info.items[i], type)
                             \in {type} \cup TypeCalls(type.info.items[1], type, 2, stackLimit)

C9_Witness ==
    /\ type = TypeObj(JsUndefined, JsUndefined,
                      JsArray(<<TypeObj(JsUndefined, JsUndefined,
                                        InfoObj(JsUndefined, JsUndefined, TextType, JsUndefined)),
                                TextType>>))
    /\ typeResult = JsStr("set<list<text>>")

\* C9 as stated: composites are rendered from all their sub-descriptors, the set after
\* resolving each entry of the array.
C9_SetRecursesIntoEachEntry ==
    (TypeResolved /\ HasNoCodeNoName(type)) =>
        /\ CompositeRendered
        /\ HasSubDescriptorArray(type) =>
              \A i \in DOMAIN type.info.items :
                  Deref(type.info.items[i], type) \in typeCalls

\* C10: no resolution asks for more call frames than the call stack holds: the
\* recursion stops at a nesting level of its own before the engine stops it.
C10_RecursionBoundedBelowStack ==
    TypeResolved => typeDepth <= stackLimit

(***************************************************************************)
(* Properties of the storage options.                                      *)
(***************************************************************************)
\* the display name of a storage option: each _x of the storage name replaced by X
DisplayName(field) ==
    CASE field = "bloom_filter_fp_chance" -> "bloomFilterFpChance"
      [] field = "caching" -> "caching"
      [] field = "comment" -> "comment"
      [] field = "compaction" -> "compaction"
      [] field = "compression" -> "compression"
      [] field = "crc_check_chance" -> "crcCheckChance"
      [] field = "dclocal_read_repair_chance" -> "dclocalReadRepairChance"
      [] field = "default_time_to_live" -> "defaultTimeToLive"
      [] field = "gc_grace_seconds" -> "gcGraceSeconds"
      [] field = "max_index_interval" -> "maxIndexInterval"
      [] field = "memtable_flush_period_in_ms" -> "memtableFlushPeriodInMs"
      [] field = "min_index_interval" -> "minIndexInterval"
      [] field = "read_repair_chance" -> "readRepairChance"
      [] field = "speculative_retry" -> "speculativeRetry"

AllowList ==
    {"bloom_filter_fp_chance", "caching", "comment", "compaction", "compression",
     "crc_check_chance", "default_time_to_live", "gc_grace_seconds", "read_repair_chance",
     "speculative_retry"}

\* the allow-listed fields of a table row that hold a value
OptionsWithValue(tableInfo) ==
    {tableInfo.entries[i][1] : i \in {j \in DOMAIN tableInfo.entries :
                                         /\ tableInfo.entries[j][1] \in AllowList
                                         /\ tableInfo.entries[j][2] # JsNull}}

\* the places of a statement where an option is rendered: the piece " = " follows the key
OptionPlaces(statement) == {i \in DOMAIN statement : statement[i] = " = "}
EmittedOptionKeys(statement) == {statement[i - 1] : i \in OptionPlaces(statement)}

DescribedFields == {describeOptionFields[i][2] : i \in DOMAIN describeOptionFields}

DescribeReturnedOptions == DescribeReturnedSchema /\ "tableOptions" \in DOMAIN describeResult

\* C12: every key of the tableOptions mapping of the description is the display name of
\* an allow-listed option that holds a value in the table row; no key of the mapping
\* holds null or undefined.
C12_DescribeOptionsOnlyWithValue ==
    DescribeReturnedOptions =>
        \A i \in DOMAIN describeResult.tableOptions :
            /\ describeResult.tableOptions[i][2] \notin {JsNull, JsUndefined}
            /\ describeResult.tableOptions[i][1]
                  \in {DisplayName(f) : f \in OptionsWithValue(tableRows[1])}

\* C13: every option key of the statement and of the description is the display name of
\* the storage name of an option, so none holds an underscore.
C13_OptionKeysCamelCase ==
    /\ ShowReturnedSchema =>
          EmittedOptionKeys(showResult.schema) \subseteq {DisplayName(f) : f \in AllowList}
    /\ DescribeReturnedOptions =>
          \A i \in DOMAIN describeResult.tableOptions :
              describeResult.tableOptions[i][1] \in {DisplayName(f) : f \in DescribedFields}

DescribeReturnedNotFound == "message" \in DOMAIN describeResult
DescribeReturnedError == "error" \in DOMAIN describeResult

\* a query of the primary path and a query of the fallback are rejected: every execute
\* call is, or every call but the first is and the table is found, so that the primary
\* path makes a second call
DescribeBothPathsRejected ==
    \/ dbFault = "every"
    \/ dbFault = "after_first" /\ Len(tableRows) > 0

\* C14 as amended: describe always returns a value. When the table row is found it
\* returns a schema for every combination of column rows and key rows, with empty
\* columns, partitionKeys, clusteringKeys and clusteringOrder for zero column rows and
\* zero key rows; when the table row is absent it returns the not-found message; it
\* returns an error result exactly when the queries of both of its paths are rejected.
C14_DescribeSchemaWhenTableFound ==
    describeResult # NotCalled =>
        /\ DescribeReturnedError <=> DescribeBothPathsRejected
        /\ (~DescribeBothPathsRejected /\ Len(tableRows) = 0) =>
              /\ DescribeReturnedNotFound
              /\ Text(describeResult.message) = "Table 'ks.t' not found."
        /\ (~DescribeBothPathsRejected /\ Len(tableRows) > 0) =>
              /\ DescribeReturnedSchema
              /\ Len(describeResult.columns) = Len(columnRows)
              /\ Len(describeResult.partitionKeys) + Len(describeResult.clusteringKeys)
                    = Len(keyRows)
              /\ (columnRows = <<>> /\ keyRows = <<>> /\ dbFault = "none") =>
                    /\ describeResult.columns = <<>>
                    /\ describeResult.partitionKeys = <<>>
                    /\ describeResult.clusteringKeys = <<>>
                    /\ describeResult.clusteringOrder = <<>>

C14_Witness ==
    /\ dbFault = "none"
    /\ Len(tableRows) > 0
    /\ columnRows = <<>>
    /\ keyRows = <<>>
    /\ DescribeReturnedSchema
    /\ describeResult.clusteringOrder = <<>>

\* C14 as stated: describe returns a schema for every combination of table row, column
\* rows and key rows, and neither an error nor a not-found result.
C14_DescribeAlwaysSchema ==
    describeResult # NotCalled => DescribeReturnedSchema

\* C15: after a call the rows array of the key_columns result holds the rows in the
\* order in which the query returned them.
C15_KeyRowsLeftInOrder ==
    keysResult = keysReturned

(***************************************************************************)
(* Zero catalog rows.                                                      *)
(***************************************************************************)
KeyspaceNotFoundText == "Keyspace 'ks' not found."

\* the text cassandra_list_indexes reports zero index rows and zero view rows with
NoIndexesText ==
    IF Truthy(tableName)
    THEN "No indexes or materialized views found for table 'ks." \o tableName.v \o "'."
    ELSE "No indexes or materialized views found in keyspace 'ks'."

NoTablesText ==
    IF includeViews THEN "No tables or views found in keyspace 'ks'."
    ELSE "No tables found in keyspace 'ks'."

\* C16: a tool whose query for the requested keyspace, table, or set of indexes and
\* views succeeds with zero rows returns a not-found value: a message naming what was
\* not found (for cassandra_list_tables and a missing keyspace, success false with the
\* text as error and no tables), and no error of a failed run.
C16_ZeroRowsReportedNotFound ==
    /\ (indexesResult # NotCalled /\ ~Rejects(dbFault, 1) /\ keyspaceRows = <<>>) =>
          /\ DOMAIN indexesResult = {"message"}
          /\ Text(indexesResult.message) = KeyspaceNotFoundText
    /\ (/\ indexesResult # NotCalled
        /\ dbFault = "none"
        /\ keyspaceRows # <<>>
        /\ IndexesQuery(indexRows, tableName) = <<>>
        /\ ViewsQuery(viewRows, tableName) = <<>>) =>
          /\ DOMAIN indexesResult = {"message"}
          /\ Text(indexesResult.message) = NoIndexesText
    /\ (showResult # NotCalled /\ ~Rejects(dbFault, 1) /\ tableRows = <<>>) =>
          /\ DOMAIN showResult = {"message"}
          /\ Text(showResult.message) = "Table 'ks.t' not found."
    /\ (/\ showResult # NotCalled
        /\ dbFault = "none"
        /\ tableRows # <<>>
        /\ columnRows = <<>>) =>
          /\ DOMAIN showResult = {"message"}
          /\ Text(showResult.message) = "No columns found for table 'ks.t'."
    /\ (/\ describeResult # NotCalled
        /\ ~Rejects(dbFault, 1) \/ ~Rejects(dbFault, 2)
        /\ tableRows = <<>>) =>
          /\ DOMAIN describeResult = {"message"}
          /\ Text(describeResult.message) = "Table 'ks.t' not found."
    /\ (tablesResult # NotCalled /\ ~Rejects(dbFault, 1) /\ keyspaceRows = <<>>) =>
          /\ DOMAIN tablesResult = {"success", "error", "tables"}
          /\ ~tablesResult.success
          /\ Text(tablesResult.error) = KeyspaceNotFoundText
          /\ tablesResult.tables = <<>>
    /\ (/\ tablesResult # NotCalled
        /\ ~Rejects(dbFault, 1)
        /\ keyspaceRows # <<>>
        /\ ~Rejects(dbFault, 2)
        /\ listedRows = <<>>) =>
          /\ DOMAIN tablesResult = {"success", "message", "tables"}
          /\ Text(tablesResult.message) = NoTablesText
          /\ tablesResult.tables = <<>>

C16_Witness ==
    /\ dbFault = "none"
    /\ keyspaceRows # <<>>
    /\ tableRows = <<>>
    /\ tableName = JsStr("users")
    /\ Len(indexRows) > 0
    /\ IndexesQuery(indexRows, tableName) = <<>>
    /\ ViewsQuery(viewRows, tableName) = <<>>
    /\ listedRows = <<>>
    /\ DOMAIN indexesResult = {"message"}
    /\ DOMAIN showResult = {"message"}
    /\ DOMAIN describeResult = {"message"}
    /\ DOMAIN tablesResult = {"success", "message", "tables"}

(***************************************************************************)
(* The clauses of the statement.                                           *)
(***************************************************************************)
\* the places of a piece in a statement
PlacesOf(statement, piece) == {i \in DOMAIN statement : statement[i] = piece}

\* every place of the set before is lower than every place of the set after
AllBefore(before, after) == \A i \in before, j \in after : i < j

\* C17: in every statement the column lines precede the PRIMARY KEY clause, which
\* precedes the closing parenthesis of the column list, which precedes the CLUSTERING
\* ORDER BY clause, which precedes the options, and the last piece is ';'; the first
\* option follows WITH when the statement has no CLUSTERING ORDER BY clause and AND
\* when it has one, every later option follows AND, and the statement holds one WITH
\* when it has a CLUSTERING ORDER BY clause or an option and none otherwise.
C17_ClauseOrderAndSingleWith ==
    ShowReturnedSchema =>
        LET statement == showResult.schema
            columns == {2 + 5 * i : i \in 1..Len(columnRows)}
            primaryKey == PlacesOf(statement, ",\n  PRIMARY KEY (")
            closing == PlacesOf(statement, "\n)")
            clustering == PlacesOf(statement, " WITH CLUSTERING ORDER BY (")
            with == PlacesOf(statement, " WITH\n")
            options == OptionPlaces(statement)
            hasClustering == KeyIndexesOfKind(keyRows, "clustering") # {}
            hasOptions == OptionsWithValue(tableRows[1]) # {}
        IN /\ \A i \in 1..Len(columnRows) :
                 \E j \in DOMAIN columnRows :
                     columnRows[j].column_name = EmittedColumnName(statement, i)
           /\ Cardinality(primaryKey) = IF keyRows # <<>> THEN 1 ELSE 0
           /\ Cardinality(closing) = 1
           /\ Cardinality(clustering) = IF hasClustering THEN 1 ELSE 0
           /\ Cardinality(options) = Cardinality(OptionsWithValue(tableRows[1]))
           /\ AllBefore(columns, primaryKey \cup closing)
           /\ AllBefore(primaryKey, closing)
           /\ AllBefore(closing, clustering \cup with \cup options)
           /\ AllBefore(clustering, options)
           /\ PlacesOf(statement, ";") = {Len(statement)}
           /\ \A p \in options :
                 /\ statement[p - 2] = "  "
                 /\ statement[p - 3] =
                       IF (\A q \in options : p <= q) /\ ~hasClustering
                       THEN " WITH\n" ELSE " AND\n"
           /\ Cardinality(PlacesOf(statement, " AND\n")) =
                 IF hasOptions
                 THEN Cardinality(options) - (IF hasClustering THEN 0 ELSE 1)
                 ELSE 0
           /\ Cardinality(clustering \cup with) =
                 IF hasClustering \/ hasOptions THEN 1 ELSE 0

C17_Witness ==
    /\ ShowReturnedSchema
    /\ tableRows = <<TableRowSet>>
    /\ keyRows = PartitionAndClusteringKeys
    /\ Text(showResult.schema) =
          "CREATE TABLE ks.t (\n  id uuid,\n  ts timestamp,\n  PRIMARY KEY (id, ts)\n)"
          \o " WITH CLUSTERING ORDER BY (ts DESC) AND\n  comment = 'hello' AND\n"
          \o "  gcGraceSeconds = 864000;"

(***************************************************************************)
(* The PRIMARY KEY clause.                                                 *)
(***************************************************************************)
\* the columns of the key rows of one kind, ascending by position
KeyNamesOfKind(keys, kind) ==
    [p \in 1..Cardinality(KeyIndexesOfKind(keys, kind)) |->
        keys[CHOOSE i \in KeyIndexesOfKind(keys, kind) : PlaceInKind(keys, i) = p].column_name]

\* the text between the last column line, which ends at piece 4 + 5n of a statement of
\* n columns, and the parenthesis that closes the column list
KeyClauseText(statement) ==
    LET closing == CHOOSE i \in DOMAIN statement : statement[i] = "\n)"
    IN Text(SubSeq(statement, 5 + 5 * Len(columnRows), closing - 1))

\* C18: a statement is returned for a table with columns whatever its key rows are.
\* With no key row it has no PRIMARY KEY clause; with one partition key p the clause is
\* PRIMARY KEY (p ...; with two or more it is PRIMARY KEY ((p1, p2, ...) ...; the names
\* of the clustering keys follow the partition keys, each after ', ' and without its
\* direction; and without clustering keys there is no CLUSTERING ORDER BY clause.
C18_PrimaryKeyClauseByKeyColumns ==
    /\ (showResult # NotCalled /\ Len(tableRows) > 0 /\ Len(columnRows) > 0) =>
          ShowReturnedSchema
    /\ ShowReturnedSchema =>
          LET statement == showResult.schema
              partition == KeyNamesOfKind(keyRows, "partition_key")
              clusteringNames == KeyNamesOfKind(keyRows, "clustering")
              following == IF Len(clusteringNames) > 0
                           THEN ", " \o JoinStrings(clusteringNames, ", ") ELSE ""
          IN /\ keyRows = <<>> => KeyClauseText(statement) = ""
             /\ Len(partition) = 1 =>
                   KeyClauseText(statement)
                      = ",\n  PRIMARY KEY (" \o partition[1] \o following \o ")"
             /\ Len(partition) >= 2 =>
                   KeyClauseText(statement)
                      = ",\n  PRIMARY KEY ((" \o JoinStrings(partition, ", ") \o ")"
                        \o following \o ")"
             /\ Len(clusteringNames) = 0 =>
                   PlacesOf(statement, " WITH CLUSTERING ORDER BY (") = {}

C18_Witness ==
    /\ ShowReturnedSchema
    /\ Len(keyRows) = 2
    /\ KeyNamesOfKind(keyRows, "partition_key") = <<"id", "ts">>
    /\ columnRows = <<ColumnRow("id", DeclaredLayout), ColumnRow("ts", DeclaredLayout)>>
    /\ Text(showResult.schema) =
          "CREATE TABLE ks.t (\n  id uuid,\n  ts timestamp,\n  PRIMARY KEY ((id, ts))\n);"

\* a table without key rows gets a statement without a PRIMARY KEY clause
C18_WitnessNoKeys ==
    /\ ShowReturnedSchema
    /\ keyRows = <<>>
    /\ Text(showResult.schema) = "CREATE TABLE ks.t (\n  id uuid\n);"

\* a partition group followed by a clustering key
C18_WitnessGroupThenClustering ==
    /\ ShowReturnedSchema
    /\ KeyNamesOfKind(keyRows, "partition_key") = <<"id", "ts">>
    /\ KeyClauseText(showResult.schema) = ",\n  PRIMARY KEY ((id, ts), value)"

(***************************************************************************)
(* The listing of indexes and views.                                       *)
(***************************************************************************)
IndexesListed == "secondaryIndexes" \in DOMAIN indexesResult

\* the listing holds one descriptor per index row and per view row, in row order and
\* with its tag, of the rows of the table named by the filter when a filter is given,
\* of every row otherwise, and its totals are the numbers of descriptors
ListingFilteredWhen(given) ==
    IndexesListed =>
        LET indexes == IF given
                       THEN SelectSeq(indexRows, LAMBDA row : row.table_name = tableName.v)
                       ELSE indexRows
            views == IF given
                     THEN SelectSeq(viewRows, LAMBDA row : row.base_table_name = tableName.v)
                     ELSE viewRows
            listedIndexes == indexesResult.secondaryIndexes
            listedViews == indexesResult.materializedViews
        IN /\ Len(listedIndexes) = Len(indexes)
           /\ \A i \in 1..Len(listedIndexes) :
                 i <= Len(indexes) =>
                     /\ listedIndexes[i].name = indexes[i].index_name
                     /\ listedIndexes[i].table = indexes[i].table_name
           /\ \A i \in DOMAIN listedIndexes : listedIndexes[i].type = "SECONDARY_INDEX"
           /\ Len(listedViews) = Len(views)
           /\ \A i \in 1..Len(listedViews) :
                 i <= Len(views) =>
                     /\ listedViews[i].name = views[i].view_name
                     /\ listedViews[i].baseTable = views[i].base_table_name
           /\ \A i \in DOMAIN listedViews : listedViews[i].type = "MATERIALIZED_VIEW"
           /\ indexesResult.summary.totalIndexes = Len(listedIndexes)
           /\ indexesResult.summary.totalViews = Len(listedViews)

\* C19 as amended: a listing of indexes and views holds exactly the index rows and the
\* view rows whose table equals tableName when tableName is a non-empty string, every
\* row when tableName is absent or the empty string, one descriptor per row in row
\* order, indexes tagged SECONDARY_INDEX and views MATERIALIZED_VIEW, and the totals of
\* its summary are the numbers of descriptors.
C19_ListingFiltersByNonEmptyTableName ==
    ListingFilteredWhen(Truthy(tableName))

\* a filter that keeps one of two index rows and drops the only view row
C19_Witness ==
    /\ IndexesListed
    /\ tableName = JsStr("users")
    /\ Len(indexRows) = 2
    /\ indexRows[1].table_name = "events"
    /\ Len(viewRows) = 1
    /\ viewRows[1].base_table_name = "events"
    /\ Len(indexesResult.secondaryIndexes) = 1
    /\ indexesResult.secondaryIndexes[1].name = indexRows[2].index_name
    /\ indexesResult.materializedViews = <<>>
    /\ indexesResult.summary = [totalIndexes |-> 1, totalViews |-> 0]

\* C19 as stated: a listing of indexes and views holds exactly the index rows and the
\* view rows whose table equals tableName when a tableName is given, every row when
\* none is given, one descriptor per row in row order, indexes tagged SECONDARY_INDEX
\* and views MATERIALIZED_VIEW, and the totals of its summary are the numbers of
\* descriptors.
C19_ListingFiltersByTableName ==
    ListingFilteredWhen(tableName # JsUndefined)

(***************************************************************************)
(* The client handed to the tools.                                         *)
(***************************************************************************)
ClientReturned == "returned" \in DOMAIN lastGet
ClientRefused == "threw" \in DOMAIN lastGet

\* C20: whenever getCassandraClient returns a Client, the connect() of that Client has
\* resolved and its shutdown() has not been invoked; whenever it throws, its message is
\* 'Cassandra client is not initialized. Call connect first.'
C20_ReturnedClientConnected ==
    /\ ClientReturned => (lastGet.connect = "ok" /\ ~lastGet.shutdown)
    /\ ClientRefused =>
          lastGet.threw = "Cassandra client is not initialized. Call connect first."

(***************************************************************************)
(* The connection saved by a call.                                         *)
(***************************************************************************)
\* call c of connectToCassandra returned without throwing
ConnectResolved(c) == calls[c].op = "connect" /\ calls[c].outcome = "resolved"

\* the config getConnectionStatus reports for the parameters of a call
ReportedConfig(params) ==
    [contactPoints |-> params.contactPoints, keyspace |-> params.keyspace,
     localDataCenter |-> params.localDataCenter]

\* C21: when a call of connectToCassandra has returned without throwing and no call of
\* connectToCassandra or disconnectFromCassandra has begun since, getCassandraClient
\* returns the Client that call constructed and getConnectionStatus reports
\* isConnected = true with the contact points, keyspace and data center of that call,
\* whichever calls were in flight while it was connecting.
C21_ResolvedConnectionSaved ==
    \A c \in 1..MaxCalls :
        (ConnectResolved(c) /\ calls[c].begun = Begun) =>
            /\ "returned" \in DOMAIN ClientOutcome
            /\ ClientOutcome.returned = calls[c].created
            /\ ConnectionStatus.isConnected
            /\ ConnectionStatus.config = ReportedConfig(calls[c].params)

(***************************************************************************)
(* Disconnecting.                                                          *)
(***************************************************************************)
\* call c of disconnectFromCassandra returns or throws in this step
DisconnectCompletes(c) ==
    /\ calls[c].pc # "done"
    /\ calls'[c].pc = "done"
    /\ calls'[c].op = "disconnect"

\* C22: in the state in which a call of disconnectFromCassandra completes, whether
\* shutdown() resolved or rejected, client, currentConnectionConfig and connectionTime
\* are cleared, getCassandraClient throws and getConnectionStatus reports
\* isConnected = false; a call made while client is null returns without throwing and
\* changes nothing.
C22_DisconnectClears ==
    [][\A c \in 1..MaxCalls :
          DisconnectCompletes(c) =>
              /\ client' = 0
              /\ currentConnectionConfig' = JsNull
              /\ connectionTime' = JsUndefined
              /\ ClientOutcome' = [threw |-> NotInitialized]
              /\ ConnectionStatus' = [isConnected |-> FALSE]
              /\ (calls[c].pc = "idle" /\ client = 0) =>
                    /\ calls'[c].outcome = "resolved"
                    /\ UNCHANGED <<client, currentConnectionConfig, connectionTime, clients>>
     ]_vars

(***************************************************************************)
(* The counts of cassandra_list_tables.                                    *)
(***************************************************************************)
TablesCounted == "count" \in DOMAIN tablesResult

\* a name listed is the name of a materialized view of the keyspace
IsViewName(name) ==
    \/ \E i \in DOMAIN listedRows : listedRows[i].table_name = name /\ IsView(listedRows[i])
    \/ \E i \in DOMAIN viewRows : viewRows[i].view_name = name

\* C23: in a response of cassandra_list_tables that lists names, count.tables is the
\* number of names listed that are tables, count.views the number of names listed that
\* are materialized views, and count.total is their sum and the length of the list.
C23_CountsMatchListing ==
    TablesCounted =>
        LET names == tablesResult.tables
            listedViews == {i \in DOMAIN names : IsViewName(names[i])}
        IN /\ tablesResult.success
           /\ tablesResult.count.tables = Len(names) - Cardinality(listedViews)
           /\ tablesResult.count.views = Cardinality(listedViews)
           /\ tablesResult.count.total = Len(names)
           /\ tablesResult.count.total
                 = tablesResult.count.tables + tablesResult.count.views

(***************************************************************************)
(* The Client objects of the connection module.                            *)
(***************************************************************************)
\* C24: no connection is leaked: every Client whose connect() succeeded is the current
\* client of the module or has had shutdown() invoked on it.
C24_NoClientLeaked ==
    \A i \in DOMAIN clients :
        clients[i].connect = "ok" => (client = i \/ clients[i].shutdown)

\* C25: when the status reports isConnected = true with a configuration, it is the
\* parameter set of the connect call that created the current client; and when the saved
\* configuration or the connection time is set, a client is set too.
C25_ConfigBelongsToClient ==
    /\ (ConnectionStatus.isConnected /\ ConnectionStatus.config # JsUndefined) =>
           ConnectionStatus.config = ReportedConfig(clients[client].params)
    /\ (currentConnectionConfig # JsNull \/ connectionTime # JsUndefined) => client # 0

(***************************************************************************)
(* A connect call whose connect() or USE statement fails.                  *)
(***************************************************************************)
FailedToConnect == "Failed to connect to Cassandra"

\* this step is call c resumed by the rejection of its client's connect()
ConnectRejects(c) ==
    /\ calls[c].pc = "await_connect"
    /\ calls'[c].pc = "done"
    /\ clients'[calls[c].awaited].connect = "failed"

\* this step is call c creating its client after the shutdown of the previous one settled
ReplacesConnection(c) ==
    calls[c].pc = "await_old_shutdown" /\ calls'[c].pc = "await_connect"

\* this step is call c resumed by the rejection of its USE statement
UseRejects(c) ==
    /\ calls[c].pc = "await_use"
    /\ calls'[c].pc = "done"
    /\ clients'[calls[c].awaited].use = "failed"

\* C26: when connect() rejects, the call rejects with 'Failed to connect to Cassandra'
\* and client, saved configuration and connection time are cleared; a connection that
\* existed before the call has had shutdown() invoked and is not the client again; the
\* rejection of the USE statement alone lets the call resolve and leaves the client,
\* the configuration and the time as they are.
C26_FailedConnectClears ==
    [][\A c \in 1..MaxCalls :
          /\ ConnectRejects(c) =>
                /\ calls'[c].outcome = FailedToConnect
                /\ client' = 0
                /\ currentConnectionConfig' = JsNull
                /\ connectionTime' = JsUndefined
                /\ ClientOutcome' = [threw |-> NotInitialized]
                /\ ConnectionStatus' = [isConnected |-> FALSE]
          /\ ReplacesConnection(c) =>
                /\ clients[calls[c].awaited].shutdown
                /\ client' = calls'[c].created
                /\ client' # calls[c].awaited
          /\ UseRejects(c) =>
                /\ calls'[c].outcome = "resolved"
                /\ UNCHANGED <<client, currentConnectionConfig, connectionTime>>
     ]_vars

\* a connect with a keyspace resolved though its USE statement was rejected, and a later
\* connect call, which shut that connection down, was rejected: nothing is connected
C26_Witness ==
    \E c, d \in 1..MaxCalls :
        /\ ConnectResolved(d)
        /\ clients[calls[d].created].use = "failed"
        /\ clients[calls[d].created].connect = "ok"
        /\ clients[calls[d].created].shutdown
        /\ calls[c].op = "connect"
        /\ calls[c].outcome = FailedToConnect
        /\ calls[c].created > calls[d].created
        /\ client = 0
        /\ currentConnectionConfig = JsNull

(***************************************************************************)
(* The tools without a connection.                                         *)
(***************************************************************************)
\* a value a tool returns to report an error: an object with an error field, or the
\* string of cassandra_execute_query
IsErrorValue(result) ==
    /\ "thrown" \notin DOMAIN result
    /\ \/ "error" \in DOMAIN result
       \/ /\ "v" \in DOMAIN result
          /\ result.v[1] = "Failed to execute query: "

\* C27: a tool's execute invoked while client is null returns an error value; it does
\* not throw.
C27_ToolsReturnErrorsUnconnected ==
    [][client = 0 =>
          /\ showResult' # showResult => IsErrorValue(showResult')
          /\ indexesResult' # indexesResult => IsErrorValue(indexesResult')
          /\ queryResult' # queryResult => IsErrorValue(queryResult')
     ]_vars

(***************************************************************************)
(* The form of the PRIMARY KEY clause.                                     *)
(***************************************************************************)
\* the pieces of the statement from the one after 'PRIMARY KEY (' at place opening to the
\* parenthesis that closes the column list
KeyListPieces(statement, opening) ==
    LET closing == CHOOSE i \in DOMAIN statement : statement[i] = "\n)"
    IN SubSeq(statement, opening + 1, closing - 1)

\* C28: a PRIMARY KEY clause in the statement returned is well formed: its list does not
\* start with a separator or close at once, and no separator is followed by another
\* separator or by the closing parenthesis.
C28_PrimaryKeyClauseWellFormed ==
    ShowReturnedSchema =>
        \A opening \in PlacesOf(showResult.schema, ",\n  PRIMARY KEY (") :
            LET list == KeyListPieces(showResult.schema, opening)
            IN /\ Len(list) >= 2
               /\ list[1] \notin {", ", ")"}
               /\ list[Len(list)] = ")"
               /\ \A j \in 1..(Len(list) - 1) :
                     list[j] = ", " => list[j + 1] \notin {", ", ")"}

(***************************************************************************)
(* Query failures of cassandra_list_tables.                                *)
(***************************************************************************)
\* the table query of one of the two strategies of getTables succeeded
TableQuerySucceeded == ~Rejects(dbFault, 2) \/ ~Rejects(dbFault, 3)

\* C29: cassandra_list_tables returns the error 'Keyspace not found' only when the
\* keyspace query succeeded with zero rows, and success = true with a 'No tables found'
\* message only when a table query succeeded and gave nothing to list; when the
\* keyspace query rejects, or the table queries of both strategies reject, the value
\* returned has success = false and an error that carries the message of the rejection.
C29_QueryFailuresReported ==
    tablesResult # NotCalled =>
        /\ ("error" \in DOMAIN tablesResult
                /\ Text(tablesResult.error) = KeyspaceNotFoundText) =>
              (~Rejects(dbFault, 1) /\ keyspaceRows = <<>>)
        /\ "message" \in DOMAIN tablesResult =>
              (~Rejects(dbFault, 1) /\ TableQuerySucceeded)
        /\ Rejects(dbFault, 1) =>
              /\ ~tablesResult.success
              /\ \E i \in DOMAIN tablesResult.error : tablesResult.error[i] = QueryError(1)
        /\ (~Rejects(dbFault, 1) /\ keyspaceRows # <<>> /\ ~TableQuerySucceeded) =>
              /\ ~tablesResult.success
              /\ \E i \in DOMAIN tablesResult.error : tablesResult.error[i] = QueryError(3)

(***************************************************************************)
(* The fallback of cassandra_describe_table.                               *)
(***************************************************************************)
\* the description returned is the one of the fallback: it has no tableOptions
DescribeReturnedFallback == DescribeReturnedSchema /\ ~DescribeReturnedOptions

\* the execute call of the primary path that rejects, 0 when none does
PrimaryThrownAt == DescribeThrowsAt(dbFault, tableRows, 1)

\* C30: the description is the one of the fallback exactly when a query of the primary
\* path rejects; it then has the name, the keyspace, the partitionKeys, the
\* clusteringKeys and, column by column, the kind that the primary path computes from
\* the same rows; and an error result carries the message of the rejection of the
\* primary path.
C30_FallbackAgreesWithPrimary ==
    describeResult # NotCalled =>
        /\ DescribeReturnedSchema => (DescribeReturnedFallback <=> PrimaryThrownAt # 0)
        /\ DescribeReturnedFallback =>
              \A limit \in StackLimits :
                  LET primary == DescribeTableExecute(tableRows, columnRows,
                                                      DescribeKeysQuery(keyRows), limit)
                  IN /\ describeResult.name = primary.name
                     /\ describeResult.keyspace = primary.keyspace
                     /\ describeResult.partitionKeys = primary.partitionKeys
                     /\ describeResult.clusteringKeys = primary.clusteringKeys
                     /\ Len(describeResult.columns) = Len(primary.columns)
                     /\ \A i \in DOMAIN primary.columns :
                           /\ describeResult.columns[i].name = primary.columns[i].name
                           /\ describeResult.columns[i].kind = primary.columns[i].kind
        /\ DescribeReturnedError =>
              /\ PrimaryThrownAt # 0
              /\ describeResult.error[Len(describeResult.error)] = QueryError(PrimaryThrownAt)

\* the fallback described a table whose key rows are stored out of position order: two
\* partition keys and a clustering key
C30_Witness ==
    /\ DescribeReturnedFallback
    /\ dbFault = "second"
    /\ Len(keyRows) = 3
    /\ keyRows[1].kind = "partition_key"
    /\ keyRows[2].kind = "partition_key"
    /\ keyRows[1].position > keyRows[2].position
    /\ describeResult.partitionKeys = <<keyRows[2].column_name, keyRows[1].column_name>>
    /\ Len(describeResult.clusteringKeys) = 1
    /\ \E i \in DOMAIN describeResult.columns :
          describeResult.columns[i].kind = "clustering_key"

\* both paths were rejected, the primary at its second query
C30_WitnessError ==
    /\ DescribeReturnedError
    /\ dbFault = "after_first"
    /\ describeResult.error[Len(describeResult.error)] = QueryError(2)

====
